---- MODULE Spec2Model ----
(***************************************************************************)
(* A model of the l10n command line tool (TypeScript sources under src/).  *)
(*                                                                         *)
(*   - the plan resolver            src/src/plan.ts, src/src/output.ts     *)
(*   - the translate command        src/unnamed/part_010 (translateCmd)    *)
(*   - the lock files               src/unnamed/part_013                   *)
(*   - the retry loop               src/src/agent.ts (translate)           *)
(*   - the validation phases        src/src/checks.ts                      *)
(*                                                                         *)
(* A path is a sequence of segments relative to the project root, the      *)
(* root itself being <<>>.  A file's content is a record                   *)
(* [translate, body]: the [[translate]] tables of its TOML frontmatter     *)
(* and the text after the frontmatter.  A text is a sequence of            *)
(* characters; a run of characters that no regular expression of the      *)
(* program tells apart ("Guide", "---") may stand as one element.          *)
(***************************************************************************)
EXTENDS Integers, Sequences, FiniteSets, TLC

VARIABLES
    \* ---- the project on disk
    files,        \* [path -> content] of the regular files below the root
    walkOrder,    \* the order in which readdir enumerates the descriptors
    lockFiles,    \* [source path -> LockFile] below .l10n/locks
    clock,        \* the wall clock (Date.now), a counter
    \* ---- one buildPlan call (SpecPlan)
    planOut,      \* the plan the last buildPlan returned (see PlanIdle)
    \* ---- one translateCmd run (SpecRun)
    pc,           \* "idle" | "pair" | "attempt" | "done" | "failed"
    opts,         \* TranslateOptions of the run
    plans,        \* TranslatePlan[] of the run
    total,        \* number of stale pairs counted up front
    current,      \* progress counter
    planIdx,      \* index into plans of the source being processed
    outIdx,       \* index into its outputs
    updated,      \* the `updated` flag of the source being processed
    req,          \* the TranslationRequest of the pair in translate()
    brief,        \* the brief built for the pair, a sequence of lines
    attempt,      \* the loop variable of translate()
    lastErr,      \* lastErr of translate(), NoErr for null
    trace,        \* what the run has done so far (see NoTrace)
    runs,         \* number of translateCmd runs started
    edited,       \* the edit made between runs, <<>> when none
    cmdOut,       \* what the status, check or clean command run since the
                  \* last translateCmd run did (see NoCmd)
    \* ---- the preserve check on one text (SpecText)
    source,       \* the source text
    kinds,        \* the preserve list given to validate
    tokens,       \* [called, list]: extractPreservables(source, kinds)
    verdict,      \* validatePreserve(source, source, kinds): "" | "ok" | "fail"
    \* ---- one validate call (SpecValidate), on source and kinds as well
    format,       \* the Format of the produced text
    produced,     \* the produced text handed to validate
    checkOpts,    \* [checkCmd, checkCmds] of the CheckOptions
    result,       \* [called, ran, err]: the phases the call ran, in order,
                  \* and the error it threw, NoErr when it returned
    \* ---- one writeLock and readLock (SpecLock), on files as well
    lockIo,       \* [lock, wrote, read, hash]: the LockFile at hand, the
                  \* source path and record last written, the last read
    \* ---- one resolveAgents call (SpecAgents)
    agentsOut,    \* [cfg, called, coordinator, translator]
    \* ---- one translate call for one pair (SpecTranslate)
    translateIo,  \* the pair, the request built for it and what translate
                  \* did with one reply (see TranslateIdle)
    \* ---- runs and edits of one project over time (SpecHistory)
    history,      \* what the runs so far judged and wrote (see HistoryIdle)
    \* ---- cleanCmd on paths as they are written (SpecClean)
    cleanIo       \* the paths given to cleanCmd, the disk and what it
                  \* removed (see CleanIdle)

planVars == <<planOut>>
diskVars == <<files, walkOrder, lockFiles, clock>>
runVars  == <<pc, opts, plans, total, current, planIdx, outIdx, updated,
              req, brief, attempt, lastErr, trace, runs, edited, cmdOut>>
checkVars == <<format, produced, checkOpts, result>>
textVars == <<source, kinds, tokens, verdict, checkVars>>
pureVars == <<lockIo, agentsOut, translateIo, history, cleanIo>>
vars     == <<diskVars, planVars, runVars, textVars, pureVars>>

-----------------------------------------------------------------------------
(* Generic helpers *)

Range(s) == {s[i] : i \in 1..Len(s)}

RECURSIVE Flatten(_)
Flatten(ss) == IF ss = <<>> THEN <<>> ELSE Head(ss) \o Flatten(Tail(ss))

RECURSIVE SeqFilter(_, _)
\* The subsequence of s whose elements are in the set keep.
SeqFilter(s, keep) ==
    IF s = <<>> THEN <<>>
    ELSE (IF Head(s) \in keep THEN <<Head(s)>> ELSE <<>>) \o SeqFilter(Tail(s), keep)

\* All sequences over S of length at most n.
SeqsUpTo(S, n) == UNION {[1..k -> S] : k \in 0..n}

\* All orderings of the finite set S.
Perms(S) == {p \in [1..Cardinality(S) -> S] : Range(p) = S}

Whitespace == {" ", "\n", "\t"}

-----------------------------------------------------------------------------
(* node:path on segment sequences *)

Stems == {"guide", "intro", "L10N", "es", "de", "data"}
Exts  == {"md", "json"}

\* path.extname, without the leading dot
extname(name) ==
    IF \E s \in Stems, e \in Exts : name = s \o "." \o e
    THEN CHOOSE e \in Exts : \E s \in Stems : name = s \o "." \o e
    ELSE ""

\* path.basename(name, extname(name))
stem(name) ==
    IF \E s \in Stems, e \in Exts : name = s \o "." \o e
    THEN CHOOSE s \in Stems : \E e \in Exts : name = s \o "." \o e
    ELSE name

basename(p) == IF p = <<>> THEN "" ELSE p[Len(p)]
dirname(p)  == IF p = <<>> THEN <<>> ELSE SubSeq(p, 1, Len(p) - 1)

RECURSIVE normalizeOnto(_, _)
normalizeOnto(done, rest) ==
    IF rest = <<>> THEN done
    ELSE LET s == Head(rest) IN
         IF s = "." \/ s = ""
         THEN normalizeOnto(done, Tail(rest))
         ELSE IF s = ".." /\ done # <<>> /\ done[Len(done)] # ".."
         THEN normalizeOnto(SubSeq(done, 1, Len(done) - 1), Tail(rest))
         ELSE normalizeOnto(Append(done, s), Tail(rest))

\* path.normalize
normalize(p) == normalizeOnto(<<>>, p)

\* path.join
join(a, b) == normalize(a \o b)

IsPrefix(d, p) == Len(d) <= Len(p) /\ SubSeq(p, 1, Len(d)) = d

RECURSIVE commonLen(_, _)
commonLen(a, b) ==
    IF a = <<>> \/ b = <<>> \/ Head(a) # Head(b) THEN 0
    ELSE 1 + commonLen(Tail(a), Tail(b))

\* path.relative
relative(from, to) ==
    LET k == commonLen(from, to) IN
    [i \in 1..(Len(from) - k) |-> ".."] \o SubSeq(to, k + 1, Len(to))

-----------------------------------------------------------------------------
(* minimatch(rel, pattern, {dot: true}) for the pattern segments             *)
(* literal, "*", "*.<ext>" and "**"                                        *)

IsGlobSegment(ps) == ps = "**" \/ ps = "*" \/ \E e \in Exts : ps = "*." \o e

segMatch(ps, name) ==
    IF ps = "*" THEN TRUE
    ELSE IF \E e \in Exts : ps = "*." \o e
    THEN \E s \in Stems, e \in Exts : ps = "*." \o e /\ name = s \o "." \o e
    ELSE name = ps

RECURSIVE minimatchFrom(_, _)
minimatchFrom(p, pat) ==
    IF pat = <<>> THEN p = <<>>
    ELSE IF Head(pat) = "**"
    THEN \/ minimatchFrom(p, Tail(pat))
         \/ p # <<>> /\ minimatchFrom(Tail(p), pat)
    ELSE /\ p # <<>>
         /\ segMatch(Head(pat), Head(p))
         /\ minimatchFrom(Tail(p), Tail(pat))

minimatch(p, pat) == minimatchFrom(p, pat)

\* globFiles: every file below the root whose relative path matches
globFiles(fs, pattern) == {p \in DOMAIN fs : minimatch(p, pattern)}

-----------------------------------------------------------------------------
(* src/src/output.ts and src/src/plan.ts: the plan resolver                 *)

DescriptorName == "L10N.md"

\* !body.trim(): the text holds nothing but white space
Blank(text) == Range(text) \subseteq Whitespace

\* The order localeCompare gives the segment names the model uses.
SortedNames == <<"..drafts", ".l10n", "de", "de.md", "deep", "docs", "es",
                 "es.md", "guide", "guide.md", "i18n", "intro.md", "L10N",
                 "L10N.md", "out">>
NameRank(n) == CHOOSE i \in 1..Len(SortedNames) : SortedNames[i] = n

RECURSIVE PathLess(_, _)
PathLess(a, b) ==
    IF a = <<>> THEN b # <<>>
    ELSE IF b = <<>> THEN FALSE
    ELSE IF Head(a) = Head(b) THEN PathLess(Tail(a), Tail(b))
    ELSE NameRank(Head(a)) < NameRank(Head(b))

RECURSIVE SortPaths(_)
\* The paths of the set S in ascending order.
SortPaths(S) ==
    IF S = {} THEN <<>>
    ELSE LET m == CHOOSE x \in S : \A y \in S \ {x} : PathLess(x, y)
         IN <<m>> \o SortPaths(S \ {m})

\* expandOutput: a template is a sequence of segments, a segment a sequence
\* of literal parts and placeholders; {relpath} stands alone in its segment.
expandPart(part, values) ==
    IF part = "{lang}" THEN values.lang
    ELSE IF part = "{basename}" THEN values.basename
    ELSE IF part = "{ext}" THEN values.ext
    ELSE part

RECURSIVE expandSegment(_, _)
expandSegment(seg, values) ==
    IF seg = <<>> THEN ""
    ELSE expandPart(Head(seg), values) \o expandSegment(Tail(seg), values)

expandOutput(template, values) ==
    normalize(Flatten([i \in 1..Len(template) |->
        IF template[i] = <<"{relpath}">> THEN values.relpath
        ELSE <<expandSegment(template[i], values)>>]))

\* A key of a TOML table or of a Partial<...> object, "" when it is absent
\* (every use in the code reads it as `x ?? ""`)
get(table, key) == IF key \in DOMAIN table THEN table[key] ELSE ""

\* The string keys of LLMConfig and AgentConfig the model keeps (temperature,
\* max_tokens, headers and timeout_seconds are left out)
SharedFields == {"provider", "base_url", "chat_completions_path", "api_key",
                 "api_key_env"}
LLMFields   == SharedFields \cup {"coordinator_model", "translator_model"}
AgentFields == SharedFields \cup {"model"}

\* llmConfig = {} of buildPlan
NoLLM == [k \in LLMFields |-> ""] @@ [agent |-> <<>>]

\* !(name ?? "").trim() for the values the model uses
BlankName(name) == name \in {"", " "}

\* (agent.role ?? "").toLowerCase().trim() for the role names the model uses
normalizeRole(role) ==
    CASE role \in {"Translator ", "TRANSLATOR"} -> "translator"
      [] role \in {"Coordinator", " coordinator"} -> "coordinator"
      [] role = " " -> ""
      [] OTHER -> role

roleOf(agent) == normalizeRole(get(agent, "role"))

RECURSIVE mergeAgentsList(_, _)
\* mergeAgentsList: an agent of the override replaces the first agent of
\* the same role, or is appended
mergeAgentsList(base, override) ==
    IF override = <<>> THEN base
    ELSE LET agent == Head(override)
             same  == {i \in 1..Len(base) : roleOf(agent) # ""
                                            /\ roleOf(base[i]) = roleOf(agent)}
             out   == IF same = {} THEN Append(base, agent)
                      ELSE [base EXCEPT ![CHOOSE i \in same : \A j \in same : i <= j] = agent]
         IN mergeAgentsList(out, Tail(override))

\* mergeLLM
mergeLLM(base, override) ==
    [k \in LLMFields |-> IF ~BlankName(get(override, k)) THEN override[k]
                         ELSE get(base, k)] @@
    [agent |-> mergeAgentsList(IF "agent" \in DOMAIN base THEN base.agent ELSE <<>>,
                               IF "agent" \in DOMAIN override THEN override.agent
                               ELSE <<>>)]

RECURSIVE mergeLLMs(_, _)
\* The fold of mergeLLM over the ancestor chain in buildPlan
mergeLLMs(base, chain) ==
    IF chain = <<>> THEN base
    ELSE mergeLLMs(mergeLLM(base, Head(chain).llm), Tail(chain))

\* mergeAgentConfig
mergeAgentConfig(base, override) ==
    [k \in AgentFields |-> IF ~BlankName(get(override, k)) THEN override[k]
                           ELSE base[k]] @@ [role |-> base.role]

\* emptyAgent
emptyAgent == [k \in AgentFields |-> ""] @@ [role |-> ""]

\* applyAgentDefaults
applyAgentDefaults(cfg) ==
    LET provider == IF BlankName(cfg.provider) THEN "openai" ELSE cfg.provider
        out      == [cfg EXCEPT !.provider = provider]
        orElse(k, v) == IF BlankName(out[k]) THEN v ELSE out[k]
    IN CASE provider = "openai" ->
              [out EXCEPT !.chat_completions_path = orElse("chat_completions_path", "/chat/completions"),
                          !.base_url = orElse("base_url", "https://api.openai.com/v1"),
                          !.api_key_env = orElse("api_key_env", "OPENAI_API_KEY")]
         [] provider = "vertex" ->
              [out EXCEPT !.chat_completions_path = orElse("chat_completions_path", "/chat/completions")]
         [] provider = "anthropic" ->
              [out EXCEPT !.chat_completions_path = orElse("chat_completions_path", "/v1/messages"),
                          !.base_url = orElse("base_url", "https://api.anthropic.com"),
                          !.api_key_env = orElse("api_key_env", "ANTHROPIC_API_KEY")]
         [] provider \in {"local-claude", "claude", "local-codex", "codex"} ->
              [out EXCEPT !.base_url = orElse("base_url", ""),
                          !.api_key = "",
                          !.api_key_env = ""]
         [] OTHER -> out

\* The agents of cfg.agent as resolveAgents files them by role: the error
\* it throws on a role it does not know, "" when it throws none
roleError(cfg) ==
    LET agents == cfg.agent
        bad    == {i \in 1..Len(agents) : roleOf(agents[i]) \notin {"coordinator", "translator"}}
    IN IF bad = {} THEN ""
       ELSE LET i == CHOOSE i \in bad : \A j \in bad : i <= j
            IN IF roleOf(agents[i]) = "" THEN "llm.agent requires role"
               ELSE "unknown llm.agent role"

\* byRole[role] ?? {}: the last agent of the role
byRole(cfg, role) ==
    LET is == {i \in 1..Len(cfg.agent) : roleOf(cfg.agent[i]) = role} IN
    IF is = {} THEN <<>>
    ELSE cfg.agent[CHOOSE i \in is : \A j \in is : j <= i]

\* The fall through from the coordinator for the fields the translator
\* leaves blank
fallThrough(translator, coordinator) ==
    [k \in AgentFields |->
        IF k \in SharedFields /\ BlankName(translator[k]) THEN coordinator[k]
        ELSE translator[k]] @@ [role |-> translator.role]

\* resolveAgents, for a cfg whose agents all have a known role
resolveAgents(cfg) ==
    LET base == [k \in AgentFields |-> IF k = "model" THEN "" ELSE cfg[k]] @@ [role |-> ""]
        c0   == mergeAgentConfig(base, byRole(cfg, "coordinator"))
        coordinator == applyAgentDefaults(
            IF BlankName(c0.model) THEN [c0 EXCEPT !.model = cfg.coordinator_model] ELSE c0)
        t0   == mergeAgentConfig(base, byRole(cfg, "translator"))
        t1   == IF BlankName(t0.model) THEN [t0 EXCEPT !.model = cfg.translator_model] ELSE t0
    IN [coordinator |-> coordinator,
        translator  |-> applyAgentDefaults(fallThrough(t1, coordinator))]

\* splitTomlFrontmatter without the test for the closing line
headerErrorClosed(fs, p) ==
    CASE get(fs[p], "header") = "invalid"  -> "invalid TOML"
      [] OTHER -> ""

\* splitTomlFrontmatter and parseToml on a descriptor: the message of the
\* error parseFile throws, "" when it throws none.  A descriptor whose
\* header cannot be read carries the key "header": "unclosed" for an
\* opening +++ line without a closing one, "invalid" for a header that is
\* not TOML.
headerError(fs, p) ==
    CASE get(fs[p], "header") = "unclosed" -> "frontmatter start found but no closing +++"
      [] get(fs[p], "header") = "invalid"  -> "invalid TOML"
      [] OTHER -> ""

\* validateTranslateEntry: the message of the error it throws, "" when it
\* throws none (a directive without a frontmatter key has the mode "")
validateTranslateEntry(entry) ==
    IF entry.source = <<>> THEN "translate entry requires source/path"
    ELSE IF entry.targets = <<>> THEN "translate entry has no targets"
    ELSE IF entry.output = <<>> THEN "translate entry has no output"
    ELSE IF get(entry, "frontmatter") \notin {"", "preserve", "translate"}
    THEN "translate entry has invalid frontmatter mode"
    ELSE ""

\* parseFile: the L10NFile of the descriptor at path p (depth set as in
\* discoverL10N: the number of segments of its directory below the root)
parseFile(fs, p) ==
    [path      |-> p,
     dir       |-> dirname(p),
     depth     |-> Len(dirname(p)),
     body      |-> fs[p].body,
     translate |-> fs[p].translate,
     llm       |-> IF "llm" \in DOMAIN fs[p] THEN fs[p].llm ELSE NoLLM]

\* files.sort((a, b) => a.depth - b.depth), a stable sort
sortByDepth(l10ns) ==
    LET depths == {l10ns[i].depth : i \in 1..Len(l10ns)}
        maxd   == IF depths = {} THEN 0 ELSE CHOOSE d \in depths : \A e \in depths : e <= d
    IN Flatten([d \in 1..(maxd + 1) |->
           SeqFilter(l10ns, {f \in Range(l10ns) : f.depth = d - 1})])

\* discoverL10N: the descriptors in the order walkDir meets them, then sorted
discoverL10N(fs, order) ==
    LET found == SeqFilter(order, {p \in DOMAIN fs : basename(p) = DescriptorName})
    IN sortByDepth([i \in 1..Len(found) |-> parseFile(fs, found[i])])

\* collectEntries
collectEntries(l10nFiles) ==
    Flatten([f \in 1..Len(l10nFiles) |->
        [idx \in 1..Len(l10nFiles[f].translate) |->
            LET raw == l10nFiles[f].translate[idx] IN
            [source      |-> raw.source,
             targets     |-> raw.targets,
             output      |-> raw.output,
             exclude     |-> raw.exclude,
             retries     |-> raw.retries,
             frontmatter |-> IF get(raw, "frontmatter") = "" THEN "preserve"
                             ELSE raw.frontmatter,
             originPath  |-> l10nFiles[f].path,
             originDir   |-> l10nFiles[f].dir,
             originDepth |-> l10nFiles[f].depth,
             index       |-> idx - 1]]])

\* globBase: dirname of the pattern cut at its first wildcard character.
\* Every wildcard of the model starts its segment, so the cut ends in a
\* separator, which path.dirname ignores: dirname("docs/guide/") is "docs".
globBase(pattern) ==
    LET globs == {i \in 1..Len(pattern) : IsGlobSegment(pattern[i])} IN
    IF globs = {} THEN dirname(pattern)
    ELSE LET k == CHOOSE i \in globs : \A j \in globs : i <= j
         IN dirname(SubSeq(pattern, 1, k - 1))

\* entryPattern
entryPattern(entry) ==
    LET relDir  == entry.originDir
        pattern == join(relDir, entry.source)
        base    == globBase(pattern)
    IN [pattern |-> pattern, base |-> IF base = <<>> THEN relDir ELSE base]

\* resolveExcludes
resolveExcludes(fs, entry) ==
    UNION {globFiles(fs, join(entry.originDir, entry.exclude[i])) :
           i \in 1..Len(entry.exclude)}

shouldOverrideStrictDepth(existing, candidate) ==
    candidate.originDepth > existing.originDepth

\* shouldOverride
shouldOverride(existing, candidate) ==
    \/ candidate.originDepth > existing.originDepth
    \/ /\ candidate.originDepth = existing.originDepth
       /\ candidate.index > existing.index

\* resolveEntries without the test of the excludes
entryMatchesUnexcluded(fs, entry) ==
    {m \in globFiles(fs, entryPattern(entry).pattern) : basename(m) # DescriptorName}

\* The matches of one entry that resolveEntries keeps: not excluded by the
\* entry, not a descriptor (walkDir yields no directory).
entryMatches(fs, entry) ==
    {m \in globFiles(fs, entryPattern(entry).pattern) :
        /\ m \notin resolveExcludes(fs, entry)
        /\ basename(m) # DescriptorName}

\* One iteration of the outer loop of resolveEntries
resolveEntry(fs, candidates, entry) ==
    LET ms   == entryMatches(fs, entry)
        cand == [entry |-> entry, basePath |-> entryPattern(entry).base]
    IN [m \in (DOMAIN candidates) \cup ms |->
           IF m \notin ms THEN candidates[m]
           ELSE IF m \in DOMAIN candidates
                   /\ ~shouldOverride(candidates[m].entry, entry)
           THEN candidates[m]
           ELSE cand]

RECURSIVE resolveEntriesFrom(_, _, _)
resolveEntriesFrom(fs, candidates, entries) ==
    IF entries = <<>> THEN candidates
    ELSE resolveEntriesFrom(fs, resolveEntry(fs, candidates, Head(entries)),
                            Tail(entries))

\* resolveEntries
resolveEntries(fs, entries) == resolveEntriesFrom(fs, <<>>, entries)

\* rel.startsWith("..") for the segment names the model uses
startsWithDots(name) == name \in {"..", "..drafts"}

\* isAncestor: the relative path from dir does not start with two dots
isAncestor(dir, path) ==
    LET rel == relative(dir, path) IN
    rel = <<>> \/ ~startsWithDots(rel[1])

\* ancestorsFor (l10nFiles is sorted by depth already; filter keeps the order)
ancestorsFor(path, l10nFiles) ==
    SeqFilter(l10nFiles, {f \in Range(l10nFiles) : isAncestor(f.dir, path)})

\* The checks readLangContext makes of the language code, for the codes
\* the model uses: the message of the error it throws, "" when none
langError(lang) ==
    CASE lang \in {"", " "}          -> "empty language code"
      [] lang \in {"es/mx", "es\\mx"} -> "invalid language code"
      [] OTHER -> ""

\* readLangContext: the body of <dir>/L10N/<lang>.md, ok = FALSE when absent
readLangContext(fs, dir, lang) ==
    LET path == dir \o <<"L10N", lang \o ".md">> IN
    IF path \in DOMAIN fs THEN [body |-> fs[path].body, ok |-> TRUE]
    ELSE [body |-> <<>>, ok |-> FALSE]

\* src/src/format.ts detectFormat, for the extensions the model uses
detectFormat(name) ==
    CASE extname(name) = "md"   -> "markdown"
      [] extname(name) = "json" -> "json"
      [] OTHER                  -> "text"

\* sourcePlan with the per-language context of every target given to each
\* language
sourcePlanSharedLangContext(fs, l10nFiles, srcPath, cand) ==
    LET contextFiles == ancestorsFor(srcPath, l10nFiles)
        relPath      == relative(cand.basePath, srcPath)
        name         == basename(srcPath)
    IN [sourcePath    |-> srcPath,
        basePath      |-> cand.basePath,
        relPath       |-> relPath,
        format        |-> detectFormat(name),
        entry         |-> cand.entry,
        contextBodies |->
            LET keep == {f \in Range(contextFiles) : ~Blank(f.body)}
                kept == SeqFilter(contextFiles, keep)
            IN [i \in 1..Len(kept) |-> kept[i].body],
        langContextBodies |->
            [lang \in Range(cand.entry.targets) |->
                Flatten([t \in 1..Len(cand.entry.targets) |->
                    LET keep == {f \in Range(contextFiles) :
                                    LET r == readLangContext(fs, f.dir, cand.entry.targets[t])
                                    IN r.ok /\ ~Blank(r.body)}
                        kept == SeqFilter(contextFiles, keep)
                    IN [i \in 1..Len(kept) |->
                           readLangContext(fs, kept[i].dir, cand.entry.targets[t]).body]])],
        llm |-> resolveAgents(mergeLLMs(NoLLM, contextFiles)),
        outputs |->
            [i \in 1..Len(cand.entry.targets) |->
                [lang       |-> cand.entry.targets[i],
                 outputPath |-> expandOutput(cand.entry.output,
                                   [lang     |-> cand.entry.targets[i],
                                    relpath  |-> relPath,
                                    basename |-> stem(name),
                                    ext      |-> extname(name)])]]]

\* The SourcePlan buildPlan makes of one candidate
sourcePlan(fs, l10nFiles, srcPath, cand) ==
    LET contextFiles == ancestorsFor(srcPath, l10nFiles)
        relPath      == relative(cand.basePath, srcPath)
        name         == basename(srcPath)
    IN [sourcePath    |-> srcPath,
        basePath      |-> cand.basePath,
        relPath       |-> relPath,
        format        |-> detectFormat(name),
        entry         |-> cand.entry,
        contextBodies |->
            LET keep == {f \in Range(contextFiles) : ~Blank(f.body)}
                kept == SeqFilter(contextFiles, keep)
            IN [i \in 1..Len(kept) |-> kept[i].body],
        langContextBodies |->
            [lang \in Range(cand.entry.targets) |->
                LET keep == {f \in Range(contextFiles) :
                                LET r == readLangContext(fs, f.dir, lang)
                                IN r.ok /\ ~Blank(r.body)}
                    kept == SeqFilter(contextFiles, keep)
                IN [i \in 1..Len(kept) |-> readLangContext(fs, kept[i].dir, lang).body]],
        llm |-> resolveAgents(mergeLLMs(NoLLM, contextFiles)),
        outputs |->
            [i \in 1..Len(cand.entry.targets) |->
                [lang       |-> cand.entry.targets[i],
                 outputPath |-> expandOutput(cand.entry.output,
                                   [lang     |-> cand.entry.targets[i],
                                    relpath  |-> relPath,
                                    basename |-> stem(name),
                                    ext      |-> extname(name)])]]]

\* buildPlan with the sources left in descending order
buildPlanDescending(fs, order) ==
    LET l10nFiles  == discoverL10N(fs, order)
        candidates == resolveEntries(fs, collectEntries(l10nFiles))
        sorted     == SortPaths(DOMAIN candidates)
    IN [i \in 1..Len(sorted) |->
           sourcePlan(fs, l10nFiles, sorted[Len(sorted) + 1 - i],
                      candidates[sorted[Len(sorted) + 1 - i]])]

\* buildPlan: the SourcePlans, sorted by source path
buildPlan(fs, order) ==
    LET l10nFiles  == discoverL10N(fs, order)
        candidates == resolveEntries(fs, collectEntries(l10nFiles))
        sorted     == SortPaths(DOMAIN candidates)
    IN [i \in 1..Len(sorted) |->
           sourcePlan(fs, l10nFiles, sorted[i], candidates[sorted[i]])]

\* The first element of the sequence s that is not "", "" when there is none
firstError(s) ==
    LET bad == {i \in 1..Len(s) : s[i] # ""} IN
    IF bad = {} THEN "" ELSE s[CHOOSE i \in bad : \A j \in bad : i <= j]

\* The error the loop body of buildPlan throws for one candidate: that of
\* readLangContext for the first target it rejects, when the source has a
\* context file, else that of resolveAgents
sourceError(l10nFiles, srcPath, cand) ==
    LET contextFiles == ancestorsFor(srcPath, l10nFiles)
        targets      == cand.entry.targets
        langs        == firstError([i \in 1..Len(targets) |-> langError(targets[i])])
    IN IF contextFiles # <<>> /\ langs # "" THEN langs
       ELSE roleError(mergeLLMs(NoLLM, contextFiles))

\* The message of the error buildPlan throws, "" when it returns a plan:
\* parseFile on each descriptor in the order of the walk, then
\* validateTranslateEntry on each directive, then the loop over the
\* candidates (taken in the order of their paths)
planFailure(fs, order) ==
    LET found   == SeqFilter(order, {p \in DOMAIN fs : basename(p) = DescriptorName})
        headers == firstError([i \in 1..Len(found) |-> headerError(fs, found[i])])
    IN IF headers # "" THEN headers
       ELSE LET l10nFiles == discoverL10N(fs, order)
                entries   == collectEntries(l10nFiles)
                invalid   == firstError([i \in 1..Len(entries) |->
                                            validateTranslateEntry(entries[i])])
            IN IF invalid # "" THEN invalid
               ELSE LET candidates == resolveEntries(fs, entries)
                        sorted     == SortPaths(DOMAIN candidates)
                    IN firstError([i \in 1..Len(sorted) |->
                           sourceError(l10nFiles, sorted[i], candidates[sorted[i]])])

contextPartsOfEveryLang(src, lang) ==
    src.contextBodies \o
    Flatten([i \in 1..Len(src.outputs) |-> src.langContextBodies[src.outputs[i].lang]])

\* contextPartsFor
contextPartsFor(src, lang) ==
    src.contextBodies \o
    (IF lang \in DOMAIN src.langContextBodies THEN src.langContextBodies[lang] ELSE <<>>)

-----------------------------------------------------------------------------
(* src/src/checks.ts: the preserve check.  A text is a sequence of          *)
(* one-character strings; a match is [from, to], both inclusive.            *)

\* The grave accent, a character a TLA+ string cannot hold
Backtick == "<grave>"

DEFAULT_PRESERVE == <<"code_blocks", "inline_code", "urls", "placeholders">>


\* The characters the class [^\s)"'<>] of urlRe excludes
UrlStopNoQuote == Whitespace \cup {")", "'", "<", ">"}
UrlStop        == Whitespace \cup {")", "\"", "'", "<", ">"}

\* The characters the class [^`\n] of inlineCodeRe excludes
InlineStop == {Backtick, "\n"}

\* The characters the class [^\s{}] of placeholderRe excludes
PlaceholderStop == Whitespace \cup {"{", "}"}

Fence == <<Backtick, Backtick, Backtick>>

\* text has the literal lit at position i
litAt(text, i, lit) ==
    /\ i >= 1
    /\ i + Len(lit) - 1 <= Len(text)
    /\ SubSeq(text, i, i + Len(lit) - 1) = lit

RECURSIVE runEnd(_, _, _)
\* The last position of the longest run from i of characters outside stop
\* (i - 1 when the run is empty): a greedy [^...]*
runEnd(text, i, stop) ==
    IF i > Len(text) \/ text[i] \in stop THEN i - 1
    ELSE runEnd(text, i + 1, stop)

RECURSIVE fenceFrom(_, _)
\* The first position from i at which a fence starts, 0 when there is none
fenceFrom(text, i) ==
    IF i + 2 > Len(text) THEN 0
    ELSE IF litAt(text, i, Fence) THEN i
    ELSE fenceFrom(text, i + 1)

\* codeBlockRe = /```[\s\S]*?```/g at position i: the last position of the
\* match starting at i, 0 when none starts there
codeBlockAt(text, i) ==
    IF ~litAt(text, i, Fence) THEN 0
    ELSE LET close == fenceFrom(text, i + 3)
         IN IF close = 0 THEN 0 ELSE close + 2

\* inlineCodeRe = /`[^`\n]+`/g
inlineCodeAt(text, i) ==
    IF ~litAt(text, i, <<Backtick>>) THEN 0
    ELSE LET e == runEnd(text, i + 1, InlineStop)
         IN IF e >= i + 1 /\ litAt(text, e + 1, <<Backtick>>) THEN e + 1 ELSE 0

\* urlRe = /https?:\/\/[^\s)"'<>]+/g
urlAt(text, i) ==
    IF ~litAt(text, i, <<"h", "t", "t", "p">>) THEN 0
    ELSE LET j == IF litAt(text, i + 4, <<"s">>) THEN i + 5 ELSE i + 4 IN
         IF ~litAt(text, j, <<":", "/", "/">>) THEN 0
         ELSE LET e == runEnd(text, j + 3, UrlStop)
              IN IF e >= j + 3 THEN e ELSE 0

\* placeholderRe = /\{[^\s{}]+\}/g
placeholderAt(text, i) ==
    IF ~litAt(text, i, <<"{">>) THEN 0
    ELSE LET e == runEnd(text, i + 1, PlaceholderStop)
         IN IF e >= i + 1 /\ litAt(text, e + 1, <<"}">>) THEN e + 1 ELSE 0

matchAt(kind, text, i) ==
    CASE kind = "code_blocks"  -> codeBlockAt(text, i)
      [] kind = "inline_code"  -> inlineCodeAt(text, i)
      [] kind = "urls"         -> urlAt(text, i)
      [] kind = "placeholders" -> placeholderAt(text, i)
      [] OTHER                 -> 0

RECURSIVE matchAllFrom(_, _, _)
\* text.matchAll(re): leftmost matches, each search resuming after the last
matchAllFrom(kind, text, i) ==
    IF i > Len(text) THEN <<>>
    ELSE LET e == matchAt(kind, text, i) IN
         IF e = 0 THEN matchAllFrom(kind, text, i + 1)
         ELSE <<[from |-> i, to |-> e]>> \o matchAllFrom(kind, text, e + 1)

matchAll(kind, text) == matchAllFrom(kind, text, 1)

RECURSIVE removeMatches(_, _, _)
\* text.replace(re, ""): the text from position i without the matches ms
removeMatches(text, i, ms) ==
    IF ms = <<>> THEN SubSeq(text, i, Len(text))
    ELSE SubSeq(text, i, Head(ms).from - 1) \o
         removeMatches(text, Head(ms).to + 1, Tail(ms))

RECURSIVE addTokens(_, _, _)
\* The loop `if (!seen.has(m)) { seen.add(m); tokens.push(m) }` over ms
addTokens(toks, text, ms) ==
    IF ms = <<>> THEN toks
    ELSE LET t == SubSeq(text, Head(ms).from, Head(ms).to) IN
         addTokens(IF t \in Range(toks) THEN toks ELSE Append(toks, t),
                   text, Tail(ms))

\* v.trim().toLowerCase() on the preserve values the model uses
normalizeKind(v) ==
    CASE v \in {" None ", "NONE"} -> "none"
      [] v \in {"URLS", " Urls "} -> "urls"
      [] OTHER                    -> v

resolvePreserveExact(preserve) ==
    IF preserve = <<>> THEN Range(DEFAULT_PRESERVE)
    ELSE IF "none" \in Range(preserve) THEN {}
    ELSE Range(preserve)

\* resolvePreserve: the set of kinds to check
resolvePreserve(preserve) ==
    IF preserve = <<>> THEN Range(DEFAULT_PRESERVE)
    ELSE IF \E i \in 1..Len(preserve) : normalizeKind(preserve[i]) = "none" THEN {}
    ELSE {normalizeKind(preserve[i]) : i \in 1..Len(preserve)}

\* extractPreservables
extractPreservables(src, ks) ==
    LET blocks == IF "code_blocks" \in ks THEN matchAll("code_blocks", src) ELSE <<>>
        t1     == addTokens(<<>>, src, blocks)
        text   == IF "code_blocks" \in ks THEN removeMatches(src, 1, blocks) ELSE src
        t2     == IF "inline_code" \in ks
                  THEN addTokens(t1, text, matchAll("inline_code", text)) ELSE t1
        t3     == IF "urls" \in ks
                  THEN addTokens(t2, text, matchAll("urls", text)) ELSE t2
    IN IF "placeholders" \in ks
       THEN addTokens(t3, text, matchAll("placeholders", text)) ELSE t3

\* String.prototype.includes
includes(text, token) ==
    \E i \in 1..(Len(text) - Len(token) + 1) : litAt(text, i, token)

MaxMissing == 5

RECURSIVE missingTokens(_, _, _)
\* The loop of validatePreserve, which stops at five missing tokens
missingTokens(output, toks, missing) ==
    IF toks = <<>> \/ Len(missing) >= MaxMissing THEN missing
    ELSE missingTokens(output, Tail(toks),
             IF includes(output, Head(toks)) THEN missing
             ELSE Append(missing, Head(toks)))

\* validatePreserve: the missing tokens reported, <<>> for null
validatePreserve(output, src, ks) ==
    missingTokens(output, extractPreservables(src, ks), <<>>)

\* The preserve phase of validate: TRUE when it throws no ToolError
preservePhaseOk(output, src, preserve) ==
    LET ks == resolvePreserve(preserve) IN
    ks = {} \/ validatePreserve(output, src, ks) = <<>>

-----------------------------------------------------------------------------
(* src/src/reporter.ts: hashes.  sha256 is modelled as an injective tag on  *)
(* the hashed text; the empty string of a lock field is NoHash.             *)

NoHash == <<>>

hashBytes(input) == <<"sha256", input>>

hashString(input) == hashBytes(input)

RECURSIVE joinParts(_, _)
\* parts.join(sep)
joinParts(parts, sep) ==
    IF parts = <<>> THEN <<>>
    ELSE IF Len(parts) = 1 THEN Head(parts)
    ELSE Head(parts) \o sep \o joinParts(Tail(parts), sep)

hashStrings(parts) == hashString(joinParts(parts, <<"\n", "\n">>))

-----------------------------------------------------------------------------
(* src/unnamed/part_013: lock files.  lockFiles maps a source path to the   *)
(* LockFile stored at .l10n/locks/<source path>.lock; a time is a clock     *)
(* value, 0 standing for the empty string.                                  *)

OutputLock(path, hash, contextHash, checkedAt) ==
    [path |-> path, hash |-> hash, context_hash |-> contextHash,
     checked_at |-> checkedAt]

\* The lock translateCmd starts from when readLock finds none
emptyLock(sourcePath) ==
    [source_path |-> sourcePath, source_hash |-> NoHash, context_hash |-> NoHash,
     outputs |-> <<>>, updated_at |-> 0]

\* readLock, with translateCmd's fallback for null
readLock(locks, sourcePath) ==
    IF sourcePath \in DOMAIN locks THEN locks[sourcePath] ELSE emptyLock(sourcePath)

\* writeLock: stamps updated_at and stores the record
writeLock(locks, sourcePath, lock, now) ==
    [p \in (DOMAIN locks) \cup {sourcePath} |->
        IF p = sourcePath THEN [lock EXCEPT !.updated_at = now] ELSE locks[p]]

\* The value of a property that is absent
Undefined == <<"undefined">>

\* obj.key, for an object that may lack the property
field(obj, key) == IF key \in DOMAIN obj THEN obj[key] ELSE Undefined

lockContextHashLegacyFirst(lock, lang) ==
    IF field(lock, "context_hash") \notin {Undefined, NoHash} THEN lock.context_hash
    ELSE IF lang \in DOMAIN lock.outputs
            /\ field(lock.outputs[lang], "context_hash") # Undefined
    THEN lock.outputs[lang].context_hash
    ELSE NoHash

\* lockContextHash: the Output Lock's own context hash unless it is absent
\* or empty, else the record-wide one, "" when that is absent
lockContextHash(lock, lang) ==
    IF lang \in DOMAIN lock.outputs
       /\ field(lock.outputs[lang], "context_hash") \notin {Undefined, NoHash}
    THEN lock.outputs[lang].context_hash
    ELSE IF field(lock, "context_hash") = Undefined THEN NoHash
    ELSE lock.context_hash

\* lockPath, below the root
lockPath(sourcePath) ==
    join(<<".l10n", "locks">>,
         dirname(sourcePath) \o <<basename(sourcePath) \o ".lock">>)

\* ---- JSON.stringify and JSON.parse on a LockFile.  A string is a sequence
\* of characters; a JSON object is the sequence of its members <<key, value>>.

jsonStringRaw(str) == str

\* The characters of a string between its quotes: the quote and the
\* backslash are escaped
jsonString(str) ==
    Flatten([i \in 1..Len(str) |->
        IF str[i] \in {"\"", "\\"} THEN <<"\\", str[i]>> ELSE <<str[i]>>])

RECURSIVE parseString(_)
\* The string a JSON string stands for
parseString(text) ==
    IF text = <<>> THEN <<>>
    ELSE IF Head(text) = "\\" /\ Len(text) >= 2
    THEN <<text[2]>> \o parseString(SubSeq(text, 3, Len(text)))
    ELSE <<Head(text)>> \o parseString(Tail(text))

\* The members of an object with string values, in the order of keys; a
\* property whose value is undefined is left out
stringMembers(obj, keys) ==
    LET present == SeqFilter(keys, {k \in DOMAIN obj : obj[k] # Undefined})
    IN [i \in 1..Len(present) |-> <<present[i], jsonString(obj[present[i]])>>]

\* The object a sequence of members stands for: the last member of a key
\* gives its value
parseMembers(members, value(_)) ==
    [k \in {members[i][1] : i \in 1..Len(members)} |->
        LET is == {i \in 1..Len(members) : members[i][1] = k}
        IN value(members[CHOOSE i \in is : \A j \in is : j <= i][2])]

OutputLockKeys == <<"path", "hash", "context_hash", "checked_at">>
LockFileKeys   == <<"source_path", "source_hash", "context_hash", "updated_at">>

\* JSON.stringify(lock, null, 2): outputs holds one member per language, in
\* the order langs
stringify(lock, langs) ==
    [top     |-> stringMembers([k \in DOMAIN lock \ {"outputs"} |-> lock[k]],
                               LockFileKeys),
     outputs |-> [i \in 1..Len(langs) |->
                     <<langs[i], stringMembers(lock.outputs[langs[i]], OutputLockKeys)>>]]

parseOutputLock(members) == parseMembers(members, parseString)

\* JSON.parse(data) as LockFile
parse(data) ==
    parseMembers(data.top, parseString) @@
    [outputs |-> parseMembers(data.outputs, parseOutputLock)]

\* new Date().toISOString(): the text of the instant now
toISOString(now) == <<"T">> \o [i \in 1..now |-> "1"]

\* writeLock on the disk: updated_at is stamped, the directory made, the
\* text written to lockPath
writeLockFile(fs, sourcePath, lock, langs, now) ==
    LET stamped == [lock EXCEPT !.updated_at = toISOString(now)]
        path    == lockPath(sourcePath)
    IN [p \in (DOMAIN fs) \cup {path} |->
           IF p = path THEN [translate |-> <<>>, body |-> stringify(stamped, langs)]
           ELSE fs[p]]

\* readLock on the disk: <<>> stands for null (ENOENT)
readLockFile(fs, sourcePath) ==
    IF lockPath(sourcePath) \in DOMAIN fs
    THEN <<parse(fs[lockPath(sourcePath)].body)>>
    ELSE <<>>

-----------------------------------------------------------------------------
(* src/unnamed/part_010: the planning loop of translateCmd                  *)

\* readFile of a source: the sources of the model carry no TOML
\* frontmatter, their bytes are their body
readFile(fs, p) == fs[p].body

\* stat succeeds: a file, or a directory some file lies below
exists(fs, p) == \E f \in DOMAIN fs : IsPrefix(p, f)

upToDateIgnoringMissing(fs, lock, sourceHash, output, contextHash) ==
    /\ output.lang \in DOMAIN lock.outputs
    /\ lock.source_hash = sourceHash
    /\ lock.outputs[output.lang].path = output.outputPath
    /\ lockContextHash(lock, output.lang) = contextHash

\* upToDate of the planning loop
upToDate(fs, lock, sourceHash, output, contextHash) ==
    /\ exists(fs, output.outputPath)
    /\ output.lang \in DOMAIN lock.outputs
    /\ lock.source_hash = sourceHash
    /\ lock.outputs[output.lang].path = output.outputPath
    /\ lockContextHash(lock, output.lang) = contextHash

\* One iteration of the planning loop: the TranslatePlan of a source
translatePlan(fs, locks, src, force) ==
    LET sourceBytes == readFile(fs, src.sourcePath)
        sourceHash  == hashBytes(sourceBytes)
        lock        == readLock(locks, src.sourcePath)
        langs       == {src.outputs[i].lang : i \in 1..Len(src.outputs)}
        ctx(lang)   == hashStrings(contextPartsFor(src, lang))
        out(lang)   == src.outputs[CHOOSE i \in 1..Len(src.outputs) :
                                       src.outputs[i].lang = lang]
    IN [source        |-> src,
        sourceBytes   |-> sourceBytes,
        sourceHash    |-> sourceHash,
        lock          |-> lock,
        contextHashes |-> [lang \in langs |-> ctx(lang)],
        translate     |-> [lang \in langs |->
            ~(~force /\ upToDate(fs, lock, sourceHash, out(lang), ctx(lang)))]]

\* The planning loop over the sources of the plan
translatePlans(fs, locks, sources, force) ==
    [i \in 1..Len(sources) |-> translatePlan(fs, locks, sources[i], force)]

\* total: the outputs the planning loop marked
countMarked(tp) ==
    Cardinality({i \in 1..Len(tp.source.outputs) :
                    tp.translate[tp.source.outputs[i].lang]})

RECURSIVE totalOf(_)
totalOf(tps) == IF tps = <<>> THEN 0 ELSE countMarked(Head(tps)) + totalOf(Tail(tps))

\* Retries given to translate (-1 stands for an absent --retries, <<>> for
\* an absent retries key of the directive)
DefaultRetries == 2
resolveRetries(optRetries, entryRetries) ==
    LET fromEntry == IF optRetries < 0 /\ entryRetries # <<>>
                     THEN entryRetries[1] ELSE optRetries
    IN IF fromEntry < 0 THEN DefaultRetries ELSE fromEntry

-----------------------------------------------------------------------------
(* src/src/agent.ts and validate of src/src/checks.ts.  The directives of   *)
(* the model set no preserve, frontmatter, check_cmd or check_cmds key and  *)
(* every source is Markdown, so a request carries preserve [], frontmatter  *)
(* mode "preserve" and no external command.                                 *)

RECURSIVE splitLines(_)
\* String.prototype.split("\n")
splitLines(text) ==
    LET nl == {i \in 1..Len(text) : text[i] = "\n"} IN
    IF nl = {} THEN <<text>>
    ELSE LET k == CHOOSE i \in nl : \A j \in nl : i <= j
         IN <<SubSeq(text, 1, k - 1)>> \o splitLines(SubSeq(text, k + 1, Len(text)))

RECURSIVE trim(_)
\* String.prototype.trim
trim(text) ==
    IF text # <<>> /\ Head(text) \in Whitespace THEN trim(Tail(text))
    ELSE IF text # <<>> /\ text[Len(text)] \in Whitespace
    THEN trim(SubSeq(text, 1, Len(text) - 1))
    ELSE text

RECURSIVE stripTrailingNewlines(_)
\* resp.replace(/\n+$/, "")
stripTrailingNewlines(text) ==
    IF text # <<>> /\ text[Len(text)] = "\n"
    THEN stripTrailingNewlines(SubSeq(text, 1, Len(text) - 1))
    ELSE text

FrontmatterMarkers == {<<"---">>, <<"+++">>}

\* The index of the first line after the first that repeats the marker, 0
\* when there is none
closingLine(lines, marker) ==
    LET ends == {i \in 2..Len(lines) : trim(lines[i]) = marker} IN
    IF ends = {} THEN 0 ELSE CHOOSE i \in ends : \A j \in ends : i <= j

\* splitMarkdownFrontmatter
splitMarkdownFrontmatter(contents) ==
    LET lines  == splitLines(contents)
        marker == trim(lines[1])
        end    == closingLine(lines, marker)
    IN IF marker \notin FrontmatterMarkers \/ end = 0
       THEN [frontmatter |-> <<>>, body |-> contents, ok |-> FALSE]
       ELSE [frontmatter |-> joinParts(SubSeq(lines, 1, end), <<"\n">>),
             body        |-> joinParts(SubSeq(lines, end + 1, Len(lines)), <<"\n">>),
             ok          |-> TRUE]

\* validateMarkdown: "" for null.  The frontmatter of the model's texts is
\* well-formed YAML or TOML, so only a missing closing marker is an error.
validateMarkdown(content) ==
    LET lines == splitLines(content)
        first == trim(lines[1])
    IN IF first \notin FrontmatterMarkers THEN ""
       ELSE IF closingLine(lines, first) = 0
       THEN "markdown frontmatter missing closing marker"
       ELSE ""

\* null, as an error
NoErr == [kind |-> "none", tool |-> "", message |-> ""]

ToolError(tool, message) == [kind |-> "tool", tool |-> tool, message |-> message]

\* String.prototype.startsWith
startsWith(line, prefix) == litAt(line, 1, prefix)

RECURSIVE quoteCount(_, _)
\* The loop of hasQuotedString: the double quotes no backslash escapes
quoteCount(line, escaped) ==
    IF line = <<>> THEN 0
    ELSE IF Head(line) = "\\" /\ ~escaped THEN quoteCount(Tail(line), TRUE)
    ELSE (IF Head(line) = "\"" /\ ~escaped THEN 1 ELSE 0) +
         quoteCount(Tail(line), FALSE)

\* hasQuotedString
hasQuotedString(line) == quoteCount(line, FALSE) >= 2

\* What validatePO returns, with the line it returned at (0 for null, one
\* past the last line for the check after the loop)
NoPoErr == [message |-> "", line |-> 0]
PoErr(message, line) == [message |-> message, line |-> line]

entryOpenNever(hasMsgid, hasMsgstr) == FALSE

\* hasMsgid && !hasMsgstr
entryOpen(hasMsgid, hasMsgstr) == hasMsgid /\ ~hasMsgstr

RECURSIVE poScanAnyQuoted(_, _, _, _, _)
\* validatePO's loop without the tests of state: a msgid_plural line and a
\* quoted line pass wherever they stand
poScanAnyQuoted(lines, i, state, hasMsgid, hasMsgstr) ==
    IF i > Len(lines)
    THEN IF hasMsgid /\ ~hasMsgstr THEN PoErr("po entry missing msgstr", i)
         ELSE NoPoErr
    ELSE LET line == trim(lines[i]) IN
         IF line = <<>> \/ startsWith(line, <<"#">>)
         THEN poScanAnyQuoted(lines, i + 1, state, hasMsgid, hasMsgstr)
         ELSE IF startsWith(line, <<"msgid", " ">>)
         THEN IF hasMsgid /\ ~hasMsgstr
              THEN PoErr("po entry missing msgstr", i)
              ELSE IF ~hasQuotedString(line)
              THEN PoErr("po msgid missing quoted string", i)
              ELSE poScanAnyQuoted(lines, i + 1, "msgid", TRUE, FALSE)
         ELSE IF startsWith(line, <<"msgid_plural", " ">>)
         THEN IF ~hasQuotedString(line)
              THEN PoErr("po msgid_plural missing quoted string", i)
              ELSE poScanAnyQuoted(lines, i + 1, state, hasMsgid, hasMsgstr)
         ELSE IF startsWith(line, <<"msgstr">>)
         THEN IF ~hasMsgid THEN PoErr("po msgstr without msgid", i)
              ELSE IF ~hasQuotedString(line)
              THEN PoErr("po msgstr missing quoted string", i)
              ELSE poScanAnyQuoted(lines, i + 1, "msgstr", hasMsgid, TRUE)
         ELSE IF startsWith(line, <<"\"">>)
         THEN poScanAnyQuoted(lines, i + 1, state, hasMsgid, hasMsgstr)
         ELSE PoErr("po invalid line", i)

RECURSIVE poScan(_, _, _, _, _)
\* The loop of validatePO from line i on and the check after it.  The
\* keywords msgid, msgid_plural and msgstr each stand as one element of a
\* line; the message of an invalid line is given without the line.
poScan(lines, i, state, hasMsgid, hasMsgstr) ==
    IF i > Len(lines)
    THEN IF entryOpen(hasMsgid, hasMsgstr) THEN PoErr("po entry missing msgstr", i)
         ELSE NoPoErr
    ELSE LET line == trim(lines[i]) IN
         IF line = <<>> \/ startsWith(line, <<"#">>)
         THEN poScan(lines, i + 1, state, hasMsgid, hasMsgstr)
         ELSE IF startsWith(line, <<"msgid", " ">>)
         THEN IF entryOpen(hasMsgid, hasMsgstr)
              THEN PoErr("po entry missing msgstr", i)
              ELSE IF ~hasQuotedString(line)
              THEN PoErr("po msgid missing quoted string", i)
              ELSE poScan(lines, i + 1, "msgid", TRUE, FALSE)
         ELSE IF startsWith(line, <<"msgid_plural", " ">>)
         THEN IF state # "msgid" THEN PoErr("po msgid_plural without msgid", i)
              ELSE IF ~hasQuotedString(line)
              THEN PoErr("po msgid_plural missing quoted string", i)
              ELSE poScan(lines, i + 1, state, hasMsgid, hasMsgstr)
         ELSE IF startsWith(line, <<"msgstr">>)
         THEN IF ~hasMsgid THEN PoErr("po msgstr without msgid", i)
              ELSE IF ~hasQuotedString(line)
              THEN PoErr("po msgstr missing quoted string", i)
              ELSE poScan(lines, i + 1, "msgstr", hasMsgid, TRUE)
         ELSE IF startsWith(line, <<"\"">>)
         THEN IF state = "" THEN PoErr("po stray quoted string", i)
              ELSE poScan(lines, i + 1, state, hasMsgid, hasMsgstr)
         ELSE PoErr("po invalid line", i)

\* validatePO
validatePO(content) == poScan(splitLines(content), 1, "", FALSE, FALSE)

\* validateSyntax: "" for null.  The model has no JSON or YAML text; the
\* format "text" has no syntax check.
validateSyntax(fmt, output) ==
    CASE fmt = "po"       -> validatePO(output).message
      [] fmt = "markdown" -> validateMarkdown(output)
      [] OTHER            -> ""

\* CheckOptions with neither checkCmd nor checkCmds
NoCheckOpts == [checkCmd |-> "", checkCmds |-> <<>>]

\* selectCheckCmd: checkCmds maps formats to commands
selectCheckCmd(fmt, fallback, cmds) ==
    IF fmt \in DOMAIN cmds /\ ~BlankName(cmds[fmt]) THEN cmds[fmt]
    ELSE IF BlankName(fallback) THEN "" ELSE fallback

\* runExternal with a root path set: the Error it throws when the command
\* exits with the status exit, NoErr when that is 0
runExternal(cmd, exit) ==
    IF exit = 0 THEN NoErr
    ELSE [kind |-> "error", tool |-> "", message |-> "external check failed"]

\* One phase of validate: the tool it reports and the error it throws
Phase(tool, err) == [ran |-> <<tool>>, err |-> err]
Skipped == [ran |-> <<>>, err |-> NoErr]

thenPhaseAlways(before, phase) ==
    [ran |-> before.ran \o phase.ran,
     err |-> IF before.err # NoErr THEN before.err ELSE phase.err]

\* A phase follows the phases before it only when none of them threw
thenPhase(before, phase) ==
    IF before.err # NoErr THEN before
    ELSE [ran |-> before.ran \o phase.ran, err |-> phase.err]

\* validate(root, format, output, source, opts), the external command, when
\* one runs, exiting with the status exit: the phases reported to the
\* reporter and the error thrown
validatePhases(fmt, output, src, preserve, cmdOpts, exit) ==
    LET syntaxErr == validateSyntax(fmt, output)
        syntax    == Phase("syntax-validator",
                           IF syntaxErr # "" THEN ToolError("syntax-validator", syntaxErr)
                           ELSE NoErr)
        ks        == resolvePreserve(preserve)
        keep      == IF ks = {} THEN Skipped
                     ELSE Phase("preserve-check",
                                IF validatePreserve(output, src, ks) # <<>>
                                THEN ToolError("preserve-check",
                                               "preserved tokens missing from output")
                                ELSE NoErr)
        cmd       == selectCheckCmd(fmt, cmdOpts.checkCmd, cmdOpts.checkCmds)
        external  == IF cmd = "" THEN Skipped
                     ELSE Phase("custom-command", runExternal(cmd, exit))
    IN thenPhase(thenPhase(syntax, keep), external)

\* validate for a Markdown output with no check command: the error thrown,
\* NoErr when none
validate(output, src, preserve) ==
    validatePhases("markdown", output, src, preserve, NoCheckOpts, 0).err

\* The part of translate before buildBrief: the content sent for translation
\* and the frontmatter kept aside
splitRequest(src) ==
    LET split == splitMarkdownFrontmatter(src) IN
    IF split.ok THEN [frontmatter |-> split.frontmatter, content |-> split.body]
    ELSE [frontmatter |-> <<>>, content |-> src]

\* The frontmatter put back with no newline after it
finalOfUnjoined(frontmatter, translation) ==
    IF frontmatter = <<>> THEN translation
    ELSE frontmatter \o translation

\* The part of the loop body between translateOnce and validate
finalOf(frontmatter, translation) ==
    IF frontmatter = <<>> THEN translation
    ELSE IF trim(translation) # <<>> THEN frontmatter \o <<"\n">> \o translation
    ELSE frontmatter \o <<"\n">>

\* The start of translate: the source is split only when the format is
\* markdown and the frontmatter mode is preserve
requestSplit(fmt, mode, src) ==
    IF fmt = "markdown" /\ mode = "preserve" THEN splitRequest(src)
    ELSE [frontmatter |-> <<>>, content |-> src]

\* pickCheckCmd without the --check-cmd of the run
pickCheckCmdOfEntry(flagCmd, entryCmd) == entryCmd

\* pickCheckCmd
pickCheckCmd(flagCmd, entryCmd) ==
    IF ~BlankName(flagCmd) THEN flagCmd ELSE entryCmd

\* let checkCmds = entry.check_cmds; if ((opts.checkCmd ?? "").trim())
\* checkCmds = {}; ... checkCmds ?? {}
requestCheckCmds(flagCmd, entryCmds) ==
    IF ~BlankName(flagCmd) THEN <<>> ELSE entryCmds

briefAlwaysAsks(request) == TRUE

\* buildBrief asks the coordinator backend
briefNeedsCoordinator(request) == ~BlankName(request.coordinator.model)

translatorModelMissing(request) == BlankName(request.translator.model)

\* Error("translator model is required")
MissingModel == [kind |-> "config", tool |-> "", message |-> "translator model is required"]

\* The errors chat throws
BackendFailures == {"timeout", "status", "malformed"}
BackendError(role, why) == [kind |-> "backend", tool |-> role, message |-> why]

loopContinuesStrict(n, attempts) == n < attempts

\* The guard of the retry loop
loopContinues(n, attempts) == n <= attempts

\* let attempts = req.retries; if (attempts < 0) attempts = 0
attemptsOf(request) == IF request.retries < 0 THEN 0 ELSE request.retries

\* isStructuredFormat
isStructuredFormat(fmt) == fmt \in {"json", "yaml", "po"}

\* defaultBrief: the lines it joins; toolsSummary() is a fixed text
defaultBrief(fmt, frontmatterMode) ==
    << "Translate the content faithfully and naturally.",
       "Preserve code blocks, inline code, URLs, and placeholders.",
       "Keep formatting, lists, and headings intact.",
       "Return only the translated content." >> \o
    (IF isStructuredFormat(fmt)
     THEN << "Return valid " \o fmt \o " only. Do not wrap in markdown fences." >>
     ELSE <<>>) \o
    (IF frontmatterMode = "preserve"
     THEN << "Frontmatter is preserved separately; do not add new frontmatter." >>
     ELSE <<>>) \o
    << "Tools run after translation: toolsSummary()." >>

\* What the coordinator backend may answer, trimmed
CoordinatorBriefs == { <<"Be formal.">>, <<"Be brief.">> }

\* String.prototype.toLowerCase on the model names the model uses
toLowerCase(name) == IF name = "TranslateGemma" THEN "translategemma" ELSE name

\* isTranslateGemma: model.toLowerCase().includes("translategemma")
isTranslateGemma(model) == toLowerCase(model) \in {"translategemma"}

\* mapLangCode
mapLangCode(lang) == IF lang \in {"zh-Hans", "zh-Hant"} THEN "zh" ELSE lang

\* err.message: a ToolError prefixes the name of its tool
messageOf(err) ==
    IF err.kind = "tool" THEN err.tool \o " tool failed: " \o err.message
    ELSE err.message

feedbackNever(err) == <<>>

\* The lines translateOnce appends to the user message when lastErr is set
feedbackOf(err) ==
    IF err = NoErr THEN <<>>
    ELSE << "Previous output failed validation: " \o messageOf(err),
            "Return a corrected full translation." >>

\* The chat request of translateOnceGemma: one user message holding the
\* content and the two language codes, no system message
gemmaRequest(request, content) ==
    [gemma    |-> TRUE,
     system   |-> <<>>,
     lang     |-> mapLangCode(request.targetLang),
     context  |-> <<>>,
     text     |-> content,
     feedback |-> <<>>]

\* The chat request of translateOnce: the system message carries the brief,
\* the user message the language, the context, the content and the feedback
translatorRequest(request, briefLines, content, err) ==
    IF isTranslateGemma(request.translator.model)
    THEN gemmaRequest(request, content)
    ELSE [gemma    |-> FALSE,
          system   |-> <<briefLines>>,
          lang     |-> request.targetLang,
          context  |-> <<request.context>>,
          text     |-> content,
          feedback |-> feedbackOf(err)]

caughtFirst(previous, err) == IF previous = NoErr THEN err ELSE previous

\* catch (err) { lastErr = err }
caught(previous, err) == err

-----------------------------------------------------------------------------
(* src/unnamed/part_010: what every command starts with, and statusCmd,     *)
(* checkCmd and cleanCmd                                                    *)

\* const pl = await buildPlan(root); if (pl.sources.length === 0) throw ...:
\* the message of the error thrown, "" when the command goes on, and the
\* sources it goes on with
planOf(fs, order) ==
    LET failure == planFailure(fs, order) IN
    IF failure # "" THEN [failed |-> failure, sources |-> <<>>]
    ELSE LET sources == buildPlan(fs, order) IN
         [failed  |-> IF sources = <<>> THEN "no sources found" ELSE "",
          sources |-> sources]

\* The Output Plans of a plan in the order the commands visit them
pairsOf(sources) ==
    Flatten([i \in 1..Len(sources) |->
        [k \in 1..Len(sources[i].outputs) |->
            [source |-> sources[i], output |-> sources[i].outputs[k]]]])

\* statusCmd without the test of the context hash
statusOfIgnoringContext(fs, locks, src, output) ==
    LET sourceHash  == hashBytes(readFile(fs, src.sourcePath))
    IN IF ~exists(fs, output.outputPath) THEN "Missing"
       ELSE IF src.sourcePath \notin DOMAIN locks THEN "Stale"
       ELSE IF locks[src.sourcePath].source_hash # sourceHash THEN "Stale"
       ELSE IF output.lang \notin DOMAIN locks[src.sourcePath].outputs THEN "Stale"
       ELSE IF locks[src.sourcePath].outputs[output.lang].path # output.outputPath
       THEN "Stale"
       ELSE "Ok"

\* The label statusCmd logs for one Output Plan
statusOf(fs, locks, src, output) ==
    LET sourceHash  == hashBytes(readFile(fs, src.sourcePath))
        contextHash == hashStrings(contextPartsFor(src, output.lang))
    IN IF ~exists(fs, output.outputPath) THEN "Missing"
       ELSE IF src.sourcePath \notin DOMAIN locks THEN "Stale"
       ELSE IF locks[src.sourcePath].source_hash # sourceHash THEN "Stale"
       ELSE IF output.lang \notin DOMAIN locks[src.sourcePath].outputs THEN "Stale"
       ELSE IF lockContextHash(locks[src.sourcePath], output.lang) # contextHash
       THEN "Stale"
       ELSE IF locks[src.sourcePath].outputs[output.lang].path # output.outputPath
       THEN "Stale"
       ELSE "Ok"

\* statusCmd after buildPlan: the lines logged and the error thrown
statusCmd(fs, locks, sources) ==
    LET pairs  == pairsOf(sources)
        report == [i \in 1..Len(pairs) |->
                      [sourcePath |-> pairs[i].source.sourcePath,
                       lang       |-> pairs[i].output.lang,
                       outputPath |-> pairs[i].output.outputPath,
                       label      |-> statusOf(fs, locks, pairs[i].source,
                                               pairs[i].output)]]
        count(l) == Cardinality({i \in 1..Len(report) : report[i].label = l})
    IN [report |-> report,
        failed |-> IF count("Stale") > 0 \/ count("Missing") > 0
                   THEN "translations out of date" ELSE ""]

\* checkCmd after buildPlan: the error of the first Output Plan whose output
\* is missing or fails validate, "" when there is none
checkCmd(fs, sources) ==
    LET pairs == pairsOf(sources) IN
    firstError([i \in 1..Len(pairs) |->
        LET out == pairs[i].output.outputPath IN
        IF ~exists(fs, out) THEN "missing output"
        ELSE IF out \notin DOMAIN fs THEN "EISDIR"
        ELSE messageOf(validate(readFile(fs, out),
                                readFile(fs, pairs[i].source.sourcePath), <<>>))])

\* removePath without the test of dryRun
removePathAlways(fs, path, dryRun) ==
    IF path \in DOMAIN fs THEN "removed" ELSE "missing"

\* removePath
removePath(fs, path, dryRun) ==
    IF dryRun THEN "skipped"
    ELSE IF path \in DOMAIN fs THEN "removed"
    ELSE "missing"

\* cleanCmd after buildPlan.  The output paths of the model lie below the
\* root, so resolveWithinRoot lets them through.  removed and removedLocks
\* are the output files and the lock files (by source path) it unlinked.
cleanCmd(fs, locks, sources, dryRun, orphans) ==
    LET planned  == {sources[i].sourcePath : i \in 1..Len(sources)}
        pairs    == pairsOf(sources)
        orphaned == IF orphans THEN (DOMAIN locks) \ planned ELSE {}
        outputs  == {pairs[i].output.outputPath : i \in 1..Len(pairs)} \cup
                    UNION {{locks[o].outputs[lang].path : lang \in DOMAIN locks[o].outputs} :
                           o \in orphaned}
        removed      == {q \in outputs : removePath(fs, q, dryRun) = "removed"}
        removedLocks == {q \in (planned \cup orphaned) \cap DOMAIN locks :
                            removePath(locks, q, dryRun) = "removed"}
    IN [files        |-> [q \in (DOMAIN fs) \ removed |-> fs[q]],
        locks        |-> [q \in (DOMAIN locks) \ removedLocks |-> locks[q]],
        removed      |-> removed,
        removedLocks |-> removedLocks]

-----------------------------------------------------------------------------
(* Values shared by the specifications                                      *)

Text(body) == [translate |-> <<>>, body |-> body]

NoOpts == [force |-> FALSE, dryRun |-> FALSE, retries |-> -1]

\* What a run has done so far, kept beside the program's state:
\*   prev, prevDry, prevWrites  how the run before ended, whether it was a
\*                              dry run, the output paths it wrote
\*   edit                       the edit made since the run before
\*   fresh                      nothing has happened since the planning loop
\*   coordinator, translator    backend requests of the run, by role
\*   attempts, requests         loop iterations and translator requests of
\*                              the pair in translate()
\*   passedAt                   the iteration that passed validation, 0 if none
\*   writes, lockWrites         output paths and lock files written by the run
\*   written                    the pairs written by the run
\*   failed                     the pair that failed the run, with the stage
\*   briefs, asked              buildBrief calls and coordinator requests of
\*                              the pair in translate()
\*   sent                       the last request sent to the translator for
\*                              the pair, with the brief translateOnce was
\*                              handed, the iteration it was sent in and the
\*                              failure of the iteration before
\*   failure                    the failure of the last failed iteration
\*   validated                  the text validate accepted for the pair
\*   torn                       the output paths whose last writeFile was cut
\*                              short by the end of the process
NoTrace == [prev |-> "none", prevDry |-> FALSE, prevWrites |-> {}, edit |-> <<>>,
            fresh |-> FALSE, coordinator |-> 0, translator |-> 0,
            attempts |-> 0, requests |-> 0, passedAt |-> 0,
            writes |-> {}, lockWrites |-> {}, written |-> <<>>, failed |-> <<>>,
            briefs |-> 0, asked |-> 0, sent |-> <<>>, failure |-> NoErr,
            validated |-> <<>>, torn |-> {}]

NoReq == [sourcePath |-> <<>>, outputPath |-> <<>>, targetLang |-> "",
          format |-> "", frontmatter |-> "",
          source |-> <<>>, context |-> <<>>, preserve |-> <<>>, retries |-> 0,
          coordinator |-> [model |-> ""], translator |-> [model |-> ""]]

\* What a command other than translate did:
\*   cmd       "status" | "check" | "clean", "" when none has run
\*   dryRun    the --dry-run flag of a clean
\*   failed    the message of the error the command threw, "" when none
\*   report    the lines statusCmd logged, one per Output Plan
\*   removed, removedLocks   the files and the lock files (by source
\*             path) cleanCmd removed
NoCmd == [cmd |-> "", dryRun |-> FALSE, failed |-> "", report |-> <<>>,
          removed |-> {}, removedLocks |-> {}]

\* What writeLock and readLock were given and did, each <<>> until it happened:
\*   lock    <<[sourcePath, lock, langs]>>: the LockFile at hand, the source
\*           it belongs to and the order of the keys of its outputs
\*   wrote   <<the set of paths writeLock created or changed>>
\*   read    <<[sourcePath, after, found]>>: the source path readLock was
\*           asked for, whether writeLock had run, and <<the LockFile it
\*           returned>>, <<>> for null
\*   hash    <<[lang, current, same]>>: the language and the current context
\*           hash the lock read was compared with, and the outcome
LockIdle == lockIo = [lock |-> <<>>, wrote |-> <<>>, read |-> <<>>, hash |-> <<>>]

AgentsIdle == agentsOut = [cfg |-> <<>>, called |-> FALSE,
                           coordinator |-> <<>>, translator |-> <<>>]

\* What translateCmd and translate did for one pair, each <<>> until it
\* happened:
\*   pair      <<[format, frontmatter, source, flagCmd, entryCmd, entryCmds]>>:
\*             the source of the pair, its directive's frontmatter mode,
\*             check_cmd and check_cmds, and the --check-cmd of the run
\*   request   <<[checkCmd, checkCmds]>>: what translateCmd put in the
\*             request
\*   sent      <<the content handed to translateOnce>>
\*   reply     <<the text translateOnce returned>>
\*   ran, err  the phases validate ran and the error it threw
\*   returned  <<the text translate returned>>, <<>> when validate threw
TranslateIdle ==
    translateIo = [pair |-> <<>>, request |-> <<>>, sent |-> <<>>, reply |-> <<>>,
                   ran |-> <<>>, err |-> NoErr, returned |-> <<>>]

\* What the runs of a project did so far:
\*   steps    the number of runs and edits made
\*   judged   the pairs the planning loop of the last run found up to
\*            date: [sourcePath, lang, sourceHash, origin], the hash of the
\*            source as the run read it and the hash of the source the
\*            output of the pair was translated from
\*   origin   [<<sourcePath, lang>> -> the hash of the source the last
\*            translation written for the pair was made from]
\*   wrote    the pairs [sourcePath, lang] the last run wrote and persisted
\*            an Output Lock for
\*   planned  the paths of the sources and descriptors the last run read
HistoryIdle ==
    history = [steps |-> 0, judged |-> {}, origin |-> <<>>, wrote |-> {}, planned |-> {}]

\* cleanCmd on paths as they are written:
\*   planned  the output paths of the planned source, in plan order
\*   orphan   the paths of the outputs of an orphaned lock file
\*   dryRun, orphans   the options
\*   disk     the files there are, as absolute paths
\*   removed  the files cleanCmd removed
\*   passed   the paths resolveWithinRoot let through before cleanCmd ended
\*   rejected <<the path resolveWithinRoot threw for>>, <<>> if it threw for none
\*   err      the message of the error cleanCmd ended with, "" if none
\*   done     cleanCmd has ended
CleanIdle ==
    cleanIo = [planned |-> <<>>, orphan |-> <<>>, dryRun |-> FALSE, orphans |-> FALSE,
               disk |-> {}, removed |-> {}, passed |-> <<>>, rejected |-> <<>>,
               err |-> "", done |-> FALSE]

PureIdle == LockIdle /\ AgentsIdle /\ TranslateIdle /\ HistoryIdle /\ CleanIdle

\* What buildPlan has returned so far:
\*   called, sources   whether it was called on the project as it is, the
\*                     sources of the plan the last call returned
\*   calls             the number of calls
\*   before            <<the sources the call before the last returned>>
\*   edit              <<the edit of the project since the last call>>
PlanIdle == planOut = [called |-> FALSE, sources |-> <<>>, calls |-> 0,
                       before |-> <<>>, edit |-> <<>>]

RunIdle ==
    /\ pc = "idle"
    /\ opts = NoOpts
    /\ plans = <<>>
    /\ total = 0
    /\ current = 0
    /\ planIdx = 0
    /\ outIdx = 0
    /\ updated = FALSE
    /\ req = NoReq
    /\ brief = <<>>
    /\ attempt = 0
    /\ lastErr = NoErr
    /\ trace = NoTrace
    /\ runs = 0
    /\ edited = <<>>
    /\ cmdOut = NoCmd

NoResult == [called |-> FALSE, ran |-> <<>>, err |-> NoErr]

CheckIdle ==
    /\ format = ""
    /\ produced = <<>>
    /\ checkOpts = NoCheckOpts
    /\ result = NoResult

TextIdle ==
    /\ source = <<>>
    /\ kinds = <<>>
    /\ tokens = [called |-> FALSE, list |-> <<>>]
    /\ verdict = ""
    /\ CheckIdle

-----------------------------------------------------------------------------
(* SpecPlan: buildPlan on projects drawn from pools of directives          *)

\* Most [[translate]] tables one descriptor declares
MaxEntries == 2

Entry(src, targets, output, exclude) ==
    [source |-> src, targets |-> targets, output |-> output,
     exclude |-> exclude, retries |-> <<>>]

OutLangRel     == << <<"out">>, <<"{lang}">>, <<"{relpath}">> >>
OutDeepLangRel == << <<"out">>, <<"deep">>, <<"{lang}">>, <<"{relpath}">> >>
OutI18n        == << <<"docs">>, <<"i18n">>, <<"{lang}">>, <<"{relpath}">> >>
OutFlat        == << <<"out">>, <<"{basename}", ".", "{lang}", ".", "{ext}">> >>

PoolRoot ==
    { Entry(<<"docs", "*.md">>, <<"es", "de">>, OutLangRel, <<>>),
      Entry(<<"docs", "**", "*.md">>, <<"es">>, OutLangRel, << <<"docs", "intro.md">> >>),
      Entry(<<"docs", "guide.md">>, <<"de">>, OutFlat, <<>>),
      Entry(<<"**", "*.md">>, <<"es">>, OutI18n, <<>>),
      Entry(<<"docs", "guide", "*.md">>, <<"es">>, OutI18n, <<>>),
      Entry(<<"docs", "*">>, <<"es">>, OutLangRel, << <<"docs", "intro.md">> >>) }

PoolDocs ==
    { Entry(<<"*.md">>, <<"es", "de">>, OutDeepLangRel, <<>>),
      Entry(<<"guide.md">>, <<"es">>, OutFlat, <<>>),
      Entry(<<"**", "*.md">>, <<"de">>, OutLangRel, << <<"deep", "*.md">> >>) }

PoolSibling ==
    { Entry(<<"..", "docs", "*.md">>, <<"es">>, OutLangRel, <<>>) }

PlanSources ==
    ( <<"docs", "guide.md">> :> Text(<<"Guide">>) ) @@
    ( <<"docs", "intro.md">> :> Text(<<"Intro">>) ) @@
    ( <<"docs", "deep", "guide.md">> :> Text(<<"Deep", " ", "guide">>) ) @@
    ( <<"docs", "guide", "intro.md">> :> Text(<<"Guide", " ", "intro">>) ) @@
    ( <<"..drafts", "guide.md">> :> Text(<<"Draft">>) ) @@
    ( <<"L10N", "es.md">> :> Text(<<"Use", " ", "tu">>) ) @@
    ( <<"docs", "L10N", "de.md">> :> Text(<<"Formal">>) )

DescriptorPaths(fs) == {p \in DOMAIN fs : basename(p) = DescriptorName}

InitPlan ==
    /\ \E r \in SeqsUpTo(PoolRoot, MaxEntries),
          d \in SeqsUpTo(PoolDocs, MaxEntries),
          s \in SeqsUpTo(PoolSibling, 1) :
          files = PlanSources @@
                  ( <<"L10N.md">> :> [translate |-> r, body |-> <<"Product">>] ) @@
                  ( <<"docs", "L10N.md">> :> [translate |-> d, body |-> <<" ">>] ) @@
                  ( <<"i18n", "L10N.md">> :> [translate |-> s, body |-> <<"Sibling">>] )
    /\ walkOrder \in Perms({<<"L10N.md">>, <<"docs", "L10N.md">>, <<"i18n", "L10N.md">>})
    /\ lockFiles = <<>>
    /\ clock = 0
    /\ PlanIdle
    /\ RunIdle
    /\ PureIdle
    /\ TextIdle

\* Most buildPlan calls in a behaviour
MaxCalls == 2

\* buildPlan(root)
BuildPlan ==
    /\ planOut.calls < MaxCalls
    /\ planOut' = [called  |-> TRUE,
                   sources |-> buildPlan(files, walkOrder),
                   calls   |-> planOut.calls + 1,
                   before  |-> IF planOut.calls > 0 THEN <<planOut.sources>> ELSE <<>>,
                   edit    |-> planOut.edit]
    /\ UNCHANGED <<diskVars, runVars, textVars, pureVars>>

\* Between two calls a target language is added to one directive of one
\* descriptor (the edit is followed on the projects whose walk meets the
\* descriptors in the order of their paths)
AddTarget ==
    /\ planOut.called
    /\ planOut.calls < MaxCalls
    /\ planOut.edit = <<>>
    /\ walkOrder = SortPaths(DescriptorPaths(files))
    /\ \E p \in DescriptorPaths(files) :
          \E i \in 1..Len(files[p].translate) :
             \E lang \in {"es", "de"} \ Range(files[p].translate[i].targets) :
                /\ files' = [files EXCEPT ![p].translate[i].targets = Append(@, lang)]
                /\ planOut' = [planOut EXCEPT !.called = FALSE, !.edit =
                       << [kind |-> "add-target", path |-> p, index |-> i - 1,
                           lang |-> lang] >>]
    /\ UNCHANGED <<walkOrder, lockFiles, clock, runVars, textVars, pureVars>>

NextPlan ==
    \/ BuildPlan
    \/ AddTarget

SpecPlan == InitPlan /\ [][NextPlan]_vars

\* The directives of the project that match the file f: f matches the
\* directive's glob, is not excluded by the directive and is no descriptor.
MatchingEntries(f) ==
    {e \in Range(collectEntries(discoverL10N(files, walkOrder))) :
        f \in entryMatches(files, e)}

PlansOf(f) == {i \in 1..Len(planOut.sources) : planOut.sources[i].sourcePath = f}

\* (depth, index) of a is at most that of b, lexicographically
RankLeq(a, b) ==
    \/ a.originDepth < b.originDepth
    \/ a.originDepth = b.originDepth /\ a.index <= b.index

\* C1: every file matched by one or more directives has exactly one
\* SourcePlan, whose directive is a matching one of greatest (origin depth,
\* declaration index); a file no directive matches has none.
C1_WinnerIsGreatest ==
    planOut.called =>
        \A f \in DOMAIN files :
            IF MatchingEntries(f) = {} THEN PlansOf(f) = {}
            ELSE /\ Cardinality(PlansOf(f)) = 1
                 /\ \A i \in PlansOf(f) :
                        /\ planOut.sources[i].entry \in MatchingEntries(f)
                        /\ \A e \in MatchingEntries(f) :
                               RankLeq(e, planOut.sources[i].entry)

\* A file matched by a shallower directive and by two directives of the
\* deepest descriptor, won by the later of the two.
C1_Witness ==
    /\ planOut.called
    /\ \E f \in DOMAIN files : \E i \in PlansOf(f) :
          LET w == planOut.sources[i].entry IN
          /\ w.index = 1
          /\ \E e \in MatchingEntries(f) : e.originDepth = w.originDepth /\ e.index = 0
          /\ \E e \in MatchingEntries(f) : e.originDepth < w.originDepth

\* ---- base paths and context parts ----------------------------------------

\* The segments of a pattern before its first wildcard segment, the
\* directory of the pattern when it has no wildcard
LiteralPrefix(pattern) ==
    LET globs == {i \in 1..Len(pattern) : IsGlobSegment(pattern[i])} IN
    IF globs = {} THEN SubSeq(pattern, 1, Len(pattern) - 1)
    ELSE SubSeq(pattern, 1, (CHOOSE i \in globs : \A j \in globs : i <= j) - 1)

\* The output path of the SourcePlan sp for the language lang
OutputFor(sp, lang) ==
    LET k == CHOOSE k \in 1..Len(sp.outputs) : sp.outputs[k].lang = lang
    IN sp.outputs[k].outputPath

\* C19: the base path of a SourcePlan is the longest literal directory
\* prefix of its directive's pattern before the first wildcard and its
\* relpath is the source path relative to that base; docs/guide/intro.md
\* under source docs/guide/*.md and output docs/i18n/{lang}/{relpath} has
\* the Spanish output path docs/i18n/es/intro.md.
C19_BaseIsLiteralPrefix ==
    planOut.called =>
        \A i \in 1..Len(planOut.sources) :
            LET sp   == planOut.sources[i]
                base == LiteralPrefix(join(sp.entry.originDir, sp.entry.source))
            IN /\ sp.basePath = base
               /\ sp.relPath = relative(base, sp.sourcePath)
               /\ ( /\ sp.sourcePath = <<"docs", "guide", "intro.md">>
                    /\ sp.entry.source = <<"docs", "guide", "*.md">>
                    /\ sp.entry.output = OutI18n )
                  => OutputFor(sp, "es") = <<"docs", "i18n", "es", "intro.md">>

\* The descriptors of the project
Descriptors == {d \in DOMAIN files : basename(d) = DescriptorName}

\* The directories, among those holding a descriptor, that are the
\* directory of the source or a proper ancestor of it
ChainDirs(src) ==
    {dirname(d) : d \in {e \in Descriptors : IsPrefix(dirname(e), dirname(src))}}

RECURSIVE RootToNearest(_)
RootToNearest(dirs) ==
    IF dirs = {} THEN <<>>
    ELSE LET top == CHOOSE x \in dirs : \A y \in dirs : Len(x) <= Len(y)
         IN <<top>> \o RootToNearest(dirs \ {top})

\* The non-blank bodies of the files name below the directories, in order
BodiesBeside(dirs, name) ==
    Flatten([k \in 1..Len(dirs) |->
        LET p == dirs[k] \o name IN
        IF p \in DOMAIN files /\ ~Blank(files[p].body) THEN <<files[p].body>>
        ELSE <<>>])

\* C20: the context parts of a source for a language are the non-blank
\* bodies of the descriptors in the source's directory and its ancestors,
\* root to nearest, then the non-blank bodies of the L10N/<lang>.md files
\* beside those descriptors in the same order; without such a file they
\* are the general parts alone.
C20_ContextPartsAlongChain ==
    planOut.called =>
        \A i \in 1..Len(planOut.sources) :
            LET sp    == planOut.sources[i]
                chain == RootToNearest(ChainDirs(sp.sourcePath))
            IN \A k \in 1..Len(sp.outputs) :
                  LET lang == sp.outputs[k].lang IN
                  contextPartsFor(sp, lang) =
                      BodiesBeside(chain, <<DescriptorName>>) \o
                      BodiesBeside(chain, <<"L10N", lang \o ".md">>)

\* ---- what a plan leaves out ------------------------------------------------

\* The directories of the project: the proper prefixes of its files' paths
Directories ==
    UNION {{SubSeq(f, 1, k) : k \in 1..(Len(f) - 1)} : f \in DOMAIN files}

\* The paths an exclude glob of the directive e matches
ExcludedBy(e, p) ==
    \E k \in 1..Len(e.exclude) : minimatch(p, join(e.originDir, e.exclude[k]))

\* C21: no SourcePlan has as its source a descriptor file, a directory or
\* a path matched by an exclude glob of its winning directive.
C21_NoDescriptorDirectoryOrExcluded ==
    planOut.called =>
        \A i \in 1..Len(planOut.sources) :
            LET sp == planOut.sources[i] IN
            /\ basename(sp.sourcePath) # DescriptorName
            /\ sp.sourcePath \notin Directories
            /\ ~ExcludedBy(sp.entry, sp.sourcePath)

\* A plan with a source whose winning directive's glob also matches a
\* descriptor, a directory and a file the directive excludes.
C21_Witness ==
    /\ planOut.called
    /\ \E i \in 1..Len(planOut.sources) :
          LET e       == planOut.sources[i].entry
              pattern == join(e.originDir, e.source)
          IN /\ \E d \in Descriptors : minimatch(d, pattern)
             /\ \E d \in Directories : minimatch(d, pattern)
             /\ \E f \in DOMAIN files : minimatch(f, pattern) /\ ExcludedBy(e, f)


\* ---- two calls of buildPlan ---------------------------------------------------

WonByEdited(sp) ==
    /\ sp.entry.originPath = planOut.edit[1].path
    /\ sp.entry.index = planOut.edit[1].index

\* C25: after a target language is added to a directive, every source the
\* directive wins has the general context parts it had, and for each
\* language that was a target before, the per-language context parts it
\* had; the directive wins the sources it won.
C25_AddedTargetKeepsContext ==
    (planOut.calls = MaxCalls /\ planOut.edit # <<>>) =>
        LET old == planOut.before[1]
            new == planOut.sources
        IN /\ {old[i].sourcePath : i \in {k \in 1..Len(old) : WonByEdited(old[k])}}
                = {new[i].sourcePath : i \in {k \in 1..Len(new) : WonByEdited(new[k])}}
           /\ \A i \in 1..Len(old), k \in 1..Len(new) :
                 (WonByEdited(old[i]) /\ new[k].sourcePath = old[i].sourcePath) =>
                     /\ new[k].contextBodies = old[i].contextBodies
                     /\ \A lang \in DOMAIN old[i].langContextBodies :
                           new[k].langContextBodies[lang] = old[i].langContextBodies[lang]

\* de is added to a directive with the target es that wins a source below
\* docs: the source has per-language context for es, and gets some for de
C25_Witness ==
    /\ planOut.calls = MaxCalls
    /\ planOut.edit # <<>>
    /\ planOut.edit[1].lang = "de"
    /\ \E k \in 1..Len(planOut.sources) :
          /\ WonByEdited(planOut.sources[k])
          /\ planOut.sources[k].langContextBodies["es"] # <<>>
          /\ planOut.sources[k].langContextBodies["de"] # <<>>
          /\ planOut.sources[k].contextBodies # <<>>

-----------------------------------------------------------------------------
(* SpecText: the preserve check on texts built from a few fragments         *)

\* Most fragments a source text is made of
MaxChunks == 4

Chunks ==
    { <<"h", "t", "t", "p", ":", "/", "/">>, <<Backtick>>, Fence, <<"a">>, <<" ">>,
      <<"{">>, <<"}">>, <<"\"">>, <<".">> }

\* <a href="https://example.org/x">
AnchorText ==
    <<"<", "a", " ", "h", "r", "e", "f", "=", "\"">> \o
    <<"h", "t", "t", "p", "s", ":", "/", "/">> \o
    <<"e", "x", "a", "m", "p", "l", "e", ".", "o", "r", "g", "/", "x">> \o
    <<"\"", ">">>

AnchorUrl ==
    <<"h", "t", "t", "p", "s", ":", "/", "/">> \o
    <<"e", "x", "a", "m", "p", "l", "e", ".", "o", "r", "g", "/", "x">>

PreserveLists ==
    { <<>>, <<"urls">>, <<"inline_code", "placeholders">>, <<"none">> }

InitText ==
    /\ source \in {Flatten(cs) : cs \in SeqsUpTo(Chunks, MaxChunks)} \cup {AnchorText}
    /\ kinds \in PreserveLists
    /\ tokens = [called |-> FALSE, list |-> <<>>]
    /\ verdict = ""
    /\ CheckIdle
    /\ files = <<>>
    /\ walkOrder = <<>>
    /\ lockFiles = <<>>
    /\ clock = 0
    /\ PlanIdle
    /\ RunIdle
    /\ PureIdle

\* extractPreservables(source, resolvePreserve(preserve))
ExtractPreservables ==
    /\ tokens' = [called |-> TRUE,
                  list   |-> extractPreservables(source, resolvePreserve(kinds))]
    /\ UNCHANGED <<source, kinds, verdict, checkVars, diskVars, planVars, runVars, pureVars>>

\* The preserve phase of validate(root, format, source, source, {preserve})
ValidateIdentity ==
    /\ verdict' = IF preservePhaseOk(source, source, kinds) THEN "ok" ELSE "fail"
    /\ UNCHANGED <<source, kinds, tokens, checkVars, diskVars, planVars, runVars, pureVars>>

NextText == ExtractPreservables \/ ValidateIdentity

SpecText == InitText /\ [][NextText]_vars

\* C6: preserve validation of a produced text equal to the source succeeds,
\* whatever the preserve list.
C6_IdentityPasses == verdict # "fail"

SentencePunctuation == {".", ",", ";", ":", "!", "?"}

\* C7 as stated: with only URLs preserved, no token contains a quote, an
\* angle bracket or a closing parenthesis, and none ends in sentence
\* punctuation.
C7_UrlExcludesTrailingPunctuation ==
    (tokens.called /\ kinds = <<"urls">>) =>
        \A t \in Range(tokens.list) :
            /\ Range(t) \cap {"\"", "'", "<", ">", ")"} = {}
            /\ t[Len(t)] \notin SentencePunctuation

UrlEnders == Whitespace \cup {"\"", "'", "<", ">", ")"}

\* C7 as amended: a URL token holds no whitespace, quote, angle bracket or
\* closing parenthesis and runs up to the next such character or the end of
\* the text, so sentence punctuation after a URL belongs to the token; the
\* anchor of the example yields its URL alone.
C7_UrlStopsAtQuote ==
    (tokens.called /\ kinds = <<"urls">>) =>
        /\ \A t \in Range(tokens.list) :
               /\ Range(t) \cap UrlEnders = {}
               /\ \E i \in 1..Len(source) :
                      /\ litAt(source, i, t)
                      /\ i + Len(t) <= Len(source) => source[i + Len(t)] \in UrlEnders
        /\ source = AnchorText => tokens.list = <<AnchorUrl>>

\* The anchor of the example has been scanned for URLs.
C7_Witness ==
    /\ tokens.called
    /\ kinds = <<"urls">>
    /\ source = AnchorText
    /\ Len(tokens.list) = 1

-----------------------------------------------------------------------------
(* SpecValidate: one call of validate on a Markdown text built from a few   *)
(* fragments, or on a PO document built from a few lines                    *)

\* Most fragments a Markdown source is made of
MaxParts == 3

\* Most lines a PO document is made of
MaxPoLines == 3

MdParts ==
    { <<"h", "t", "t", "p", ":", "/", "/">>, <<"a">>, <<" ">>,
      Fence \o <<"b">> \o Fence, Fence \o Fence,
      <<Backtick, "c", Backtick>>, <<"{", "d", "}">>, <<"---", "\n">> }

PoLines ==
    { <<"msgid", " ", "\"", "a", "\"">>,
      <<"msgstr", " ", "\"", "b", "\"">>,
      <<"msgid_plural", " ", "\"", "c", "\"">>,
      <<"\"", "d", "\"">>,
      <<"#", " ", "e">>,
      <<" ">>,
      <<"f">>,
      <<"msgid", " ", "g">>,
      <<"msgstr">>,
      <<"msgstr", "[0]", " ", "\"", "h", "\"">> }

ValidatePreserveLists ==
    { <<>>, <<"urls">>, <<"URLS", " None ">>, <<"code_blocks", "NONE", "urls">>,
      <<"none">> }

\* No command; a check_cmd; a blank check_cmd with a check_cmds entry for PO
CheckCmdOptions ==
    { NoCheckOpts,
      [checkCmd |-> "lint {path}", checkCmds |-> <<>>],
      [checkCmd |-> " ", checkCmds |-> ("po" :> "msgfmt -c {path}")] }

\* The fragments cs without the k-th, all of them when k = 0
Without(cs, k) ==
    IF k = 0 THEN cs ELSE SubSeq(cs, 1, k - 1) \o SubSeq(cs, k + 1, Len(cs))

InitValidate ==
    /\ \/ /\ format = "markdown"
          /\ \E cs \in SeqsUpTo(MdParts, MaxParts) : \E k \in 0..Len(cs) :
                /\ source = Flatten(cs)
                /\ produced = Flatten(Without(cs, k))
       \/ /\ format = "po"
          /\ source = <<>>
          /\ produced \in {joinParts(ls, <<"\n">>) : ls \in SeqsUpTo(PoLines, MaxPoLines)}
    /\ kinds \in ValidatePreserveLists
    /\ checkOpts \in CheckCmdOptions
    /\ result = NoResult
    /\ tokens = [called |-> FALSE, list |-> <<>>]
    /\ verdict = ""
    /\ files = <<>>
    /\ walkOrder = <<>>
    /\ lockFiles = <<>>
    /\ clock = 0
    /\ PlanIdle
    /\ RunIdle
    /\ PureIdle

\* validate(root, format, produced, source, {preserve, checkCmd, checkCmds})
Validate ==
    /\ ~result.called
    /\ \E exit \in {0, 1} :
          LET v == validatePhases(format, produced, source, kinds, checkOpts, exit)
          IN result' = [called |-> TRUE, ran |-> v.ran, err |-> v.err]
    /\ UNCHANGED <<source, kinds, tokens, verdict, format, produced, checkOpts>>
    /\ UNCHANGED <<diskVars, planVars, runVars, pureVars>>

NextValidate == Validate

SpecValidate == InitValidate /\ [][NextValidate]_vars

\* The place of a phase in the order syntax, preserve, external
PhaseRank(tool) ==
    CASE tool = "syntax-validator" -> 1
      [] tool = "preserve-check"   -> 2
      [] tool = "custom-command"   -> 3

SyntaxFails == validateSyntax(format, produced) # ""

PreserveFails ==
    /\ resolvePreserve(kinds) # {}
    /\ validatePreserve(produced, source, resolvePreserve(kinds)) # <<>>

CommandSet == selectCheckCmd(format, checkOpts.checkCmd, checkOpts.checkCmds) # ""

\* C14: validate runs its phases in the order syntax, preserve, external and
\* stops at the first that fails: after a syntax failure neither the
\* preserve check nor the command has run, after a preserve failure the
\* command has not run.
C14_PhasesShortCircuit ==
    result.called =>
        /\ Len(result.ran) >= 1 /\ result.ran[1] = "syntax-validator"
        /\ \A i, j \in 1..Len(result.ran) :
               i < j => PhaseRank(result.ran[i]) < PhaseRank(result.ran[j])
        /\ SyntaxFails =>
               /\ result.ran = <<"syntax-validator">>
               /\ result.err = ToolError("syntax-validator",
                                         validateSyntax(format, produced))
        /\ (~SyntaxFails /\ PreserveFails) =>
               /\ result.ran = <<"syntax-validator", "preserve-check">>
               /\ result.err.tool = "preserve-check"
        /\ (~SyntaxFails /\ ~PreserveFails) =>
               ("custom-command" \in Range(result.ran)) = CommandSet

\* A preserve failure of a text that passes syntax, with a command set
C14_Witness ==
    /\ result.called
    /\ ~SyntaxFails /\ PreserveFails /\ CommandSet
    /\ result.err # NoErr

\* C15: every error validate throws names the check it came from, the tool
\* of the phase that ran last: syntax-validator, preserve-check, or
\* custom-command for a failing check command.
C15_FailureNamesItsCheck ==
    (result.called /\ result.err # NoErr) =>
        /\ result.err.kind = "tool"
        /\ result.err.tool = result.ran[Len(result.ran)]

\* ---- PO documents --------------------------------------------------------

PoLinesOf(doc) == splitLines(doc)

IsMsgid(doc, i)  == startsWith(trim(PoLinesOf(doc)[i]), <<"msgid", " ">>)
IsMsgstr(doc, i) == startsWith(trim(PoLinesOf(doc)[i]), <<"msgstr">>)

\* Before line j (one past the last line for the end of input) a msgid line
\* stands that no msgstr line follows
OpenBefore(doc, j) ==
    \E i \in 1..(j - 1) :
        /\ IsMsgid(doc, i)
        /\ \A k \in (i + 1)..(j - 1) : ~IsMsgstr(doc, k)

\* The lines at which an entry is found without msgstr: a msgid line
\* reached while the msgid before it is open, and the end of the input
\* reached while the last msgid is open
MissingMsgstrAt(doc) ==
    {j \in 1..(Len(PoLinesOf(doc)) + 1) :
        /\ OpenBefore(doc, j)
        /\ j <= Len(PoLinesOf(doc)) => IsMsgid(doc, j)}

\* C16: a PO document with an entry without msgstr fails syntax validation,
\* and with the missing-msgstr message unless validatePO stopped at a line
\* before the first place where the msgstr is found missing.
C16_MissingMsgstrRejected ==
    (result.called /\ format = "po" /\ MissingMsgstrAt(produced) # {}) =>
        LET first == CHOOSE j \in MissingMsgstrAt(produced) :
                         \A k \in MissingMsgstrAt(produced) : j <= k
            po    == validatePO(produced)
        IN /\ result.err.tool = "syntax-validator"
           /\ result.err.message = po.message
           /\ po.message # ""
           /\ \/ po.message = "po entry missing msgstr" /\ po.line = first
              \/ po.line < first

\* Two msgid lines in a row, rejected for the missing msgstr
C16_Witness ==
    /\ result.called
    /\ format = "po"
    /\ produced = joinParts(<< <<"msgid", " ", "\"", "a", "\"">>,
                               <<"msgid", " ", "\"", "a", "\"">> >>, <<"\n">>)
    /\ result.err = ToolError("syntax-validator", "po entry missing msgstr")

\* ---- the lines of a PO document ------------------------------------------

IsPlural(doc, i) == startsWith(trim(PoLinesOf(doc)[i]), <<"msgid_plural", " ">>)
IsQuoted(doc, i) == startsWith(trim(PoLinesOf(doc)[i]), <<"\"">>)

\* A blank line or a comment
IsPassedOver(doc, i) ==
    \/ trim(PoLinesOf(doc)[i]) = <<>>
    \/ startsWith(trim(PoLinesOf(doc)[i]), <<"#">>)

\* Of the msgid and msgstr lines before line i the last is a msgid line
LastKeywordIsMsgid(doc, i) ==
    \E j \in 1..(i - 1) :
        /\ IsMsgid(doc, j)
        /\ \A k \in (j + 1)..(i - 1) : ~IsMsgid(doc, k) /\ ~IsMsgstr(doc, k)

\* What the place of line i asks of the lines before it
PlaceAllowed(doc, i) ==
    /\ IsPlural(doc, i) => LastKeywordIsMsgid(doc, i)
    /\ IsQuoted(doc, i) => \E j \in 1..(i - 1) : IsMsgid(doc, j) \/ IsMsgstr(doc, j)
    /\ IsMsgstr(doc, i) => \E j \in 1..(i - 1) : IsMsgid(doc, j)
    /\ ~IsPassedOver(doc, i) =>
           IsMsgid(doc, i) \/ IsPlural(doc, i) \/ IsMsgstr(doc, i) \/ IsQuoted(doc, i)

\* The message validatePO gives for a line that stands where it may not
PlaceMessage(doc, i) ==
    IF IsPlural(doc, i) THEN "po msgid_plural without msgid"
    ELSE IF IsMsgstr(doc, i) THEN "po msgstr without msgid"
    ELSE IF IsQuoted(doc, i) THEN "po stray quoted string"
    ELSE "po invalid line"

NoneListed(preserve) ==
    \E i \in 1..Len(preserve) : preserve[i] \in {"none", "NONE", " None "}

\* The fenced code blocks of a text
FencedBlocks(text) ==
    {SubSeq(text, m.from, m.to) : m \in Range(matchAll("code_blocks", text))}

\* The URLs of a text that stand clear of its fenced code blocks
BareUrls(text) ==
    {SubSeq(text, m.from, m.to) :
        m \in {u \in Range(matchAll("urls", text)) :
                  \A b \in Range(matchAll("code_blocks", text)) :
                      u.to < b.from \/ b.to < u.from}}

\* C17: of a Markdown text that passes the syntax phase, with the preserve
\* list unset or empty: the four categories are checked, a produced text
\* without a fenced code block or a bare URL of the source fails with
\* preserve-check, and one that holds every extracted token passes the
\* preserve phase; with none in the list, trimmed and in any case, the
\* preserve phase does not run, whatever else the list holds.
C17_DefaultPreserveAndNone ==
    (result.called /\ format = "markdown" /\ ~SyntaxFails) =>
        /\ kinds = <<>> =>
               /\ resolvePreserve(kinds) = {"code_blocks", "inline_code", "urls",
                                            "placeholders"}
               /\ (\E t \in FencedBlocks(source) \cup BareUrls(source) :
                       ~includes(produced, t))
                     => result.err.tool = "preserve-check"
               /\ (\A t \in Range(extractPreservables(source, Range(DEFAULT_PRESERVE))) :
                       includes(produced, t))
                     => /\ result.err.tool # "preserve-check"
                        /\ "preserve-check" \in Range(result.ran)
                        /\ ~CommandSet => result.err = NoErr
        /\ NoneListed(kinds) => "preserve-check" \notin Range(result.ran)

\* A produced text without the URL of the source under the default list
C17_Witness ==
    /\ result.called
    /\ format = "markdown"
    /\ kinds = <<>>
    /\ BareUrls(source) # {}
    /\ FencedBlocks(source) # {}
    /\ \E t \in BareUrls(source) : ~includes(produced, t)
    /\ \A t \in FencedBlocks(source) : includes(produced, t)
    /\ result.err.tool = "preserve-check"

-----------------------------------------------------------------------------
(* SpecLock: one LockFile written with writeLock, read back with readLock   *)
(* and compared with a current context hash                                 *)

LockSources == { <<"docs", "guide.md">>, <<"intro.md">> }
LockLangs   == {"es", "de"}

\* Output paths: plain, with a quote, with a backslash
LockPaths == { <<"o", "/", "a">>, <<"o", "\"", "a">>, <<"o", "\\", "a">> }

LockHashes == { <<"1">>, <<"2">> }

\* A context_hash property: absent, the empty string, or a hash
OptionalHashes == {Undefined, NoHash} \cup LockHashes

OutputLocks(paths, contextHashes) ==
    [path : paths, hash : {<<"9">>}, context_hash : contextHashes,
     checked_at : {<<"T">>}]

\* The outputs of a LockFile with the order of their keys: none, es, or es
\* and de
LockOutputs ==
    { [langs |-> <<>>, outputs |-> <<>>] } \cup
    { [langs |-> <<"es">>, outputs |-> [lang \in {"es"} |-> o]] :
          o \in OutputLocks(LockPaths, OptionalHashes) } \cup
    { [langs |-> <<"de", "es">>,
       outputs |-> [lang \in LockLangs |-> IF lang = "es" THEN o ELSE d]] :
          o \in OutputLocks(LockPaths, OptionalHashes),
          d \in OutputLocks({<<"o", "/", "b">>}, OptionalHashes) }

LockInputs ==
    { [sourcePath |-> sp, langs |-> outs.langs,
       lock |-> [source_path  |-> Flatten([i \in 1..Len(sp) |-> <<sp[i]>>]),
                 source_hash  |-> sh,
                 context_hash |-> ch,
                 outputs      |-> outs.outputs,
                 updated_at   |-> <<>>]] :
          sp \in LockSources, sh \in LockHashes, ch \in OptionalHashes,
          outs \in LockOutputs }

InitLock ==
    /\ files = <<>>
    /\ walkOrder = <<>>
    /\ lockFiles = <<>>
    /\ clock = 1
    /\ PlanIdle
    /\ RunIdle
    /\ TextIdle
    /\ AgentsIdle
    /\ TranslateIdle
    /\ HistoryIdle
    /\ CleanIdle
    /\ \E in \in LockInputs :
          lockIo = [lock |-> <<in>>, wrote |-> <<>>, read |-> <<>>, hash |-> <<>>]

LockAtHand == lockIo.lock[1]

\* await writeLock(root, sourcePath, lock)
WriteLock ==
    /\ lockIo.lock # <<>>
    /\ lockIo.wrote = <<>>
    /\ files' = writeLockFile(files, LockAtHand.sourcePath, LockAtHand.lock,
                              LockAtHand.langs, clock)
    /\ clock' = clock + 1
    /\ lockIo' = [lockIo EXCEPT !.wrote =
           << {q \in DOMAIN files' : q \notin DOMAIN files \/ files'[q] # files[q]} >>]
    /\ UNCHANGED <<walkOrder, lockFiles, planVars, runVars, textVars, agentsOut, translateIo, history, cleanIo>>

\* await readLock(root, sourcePath)
ReadLock ==
    /\ lockIo.lock # <<>>
    /\ lockIo.read = <<>>
    /\ \E sp \in LockSources :
          lockIo' = [lockIo EXCEPT !.read =
              << [sourcePath |-> sp, after |-> lockIo.wrote # <<>>,
                  found |-> readLockFile(files, sp)] >>]
    /\ UNCHANGED <<diskVars, planVars, runVars, textVars, agentsOut, translateIo, history, cleanIo>>

\* lockContextHash(lock, lang) === contextHash, as upToDate and statusCmd
\* test it
CompareContext ==
    /\ lockIo.read # <<>>
    /\ lockIo.read[1].found # <<>>
    /\ lockIo.hash = <<>>
    /\ \E lang \in LockLangs, contextHash \in LockHashes \cup {NoHash} :
          lockIo' = [lockIo EXCEPT !.hash =
              << [lang |-> lang, current |-> contextHash,
                  same |-> lockContextHash(lockIo.read[1].found[1], lang) = contextHash] >>]
    /\ UNCHANGED <<diskVars, planVars, runVars, textVars, agentsOut, translateIo, history, cleanIo>>

NextLock ==
    \/ WriteLock
    \/ ReadLock
    \/ CompareContext

SpecLock == InitLock /\ [][NextLock]_vars

\* readLock ran after writeLock, for the source writeLock was given
ReadBack ==
    /\ lockIo.lock # <<>>
    /\ lockIo.read # <<>>
    /\ lockIo.read[1].after
    /\ lockIo.read[1].sourcePath = LockAtHand.sourcePath

\* C23: a LockFile read back after writeLock for the same source path has
\* the source hash, the record-wide context hash and, for every language,
\* the output path, output hash and context hash of the one written; and
\* writeLock writes the one file .l10n/locks/<source path>.lock.
C23_LockRoundTrip ==
    /\ ReadBack =>
          /\ lockIo.read[1].found # <<>>
          /\ LET wrote == LockAtHand.lock
                 got   == lockIo.read[1].found[1]
             IN /\ field(got, "source_hash") = wrote.source_hash
                /\ field(got, "context_hash") = wrote.context_hash
                /\ DOMAIN got.outputs = DOMAIN wrote.outputs
                /\ \A lang \in DOMAIN wrote.outputs :
                      \A k \in {"path", "hash", "context_hash"} :
                          field(got.outputs[lang], k) = wrote.outputs[lang][k]
    /\ (lockIo.lock # <<>> /\ lockIo.wrote # <<>>) =>
          LET sp == LockAtHand.sourcePath IN
          lockIo.wrote[1] = { <<".l10n", "locks">> \o SubSeq(sp, 1, Len(sp) - 1)
                                  \o <<sp[Len(sp)] \o ".lock">> }

\* A record with two languages, an output path holding a backslash, a
\* language without a context hash of its own and no record-wide one, read
\* back
C23_Witness ==
    /\ ReadBack
    /\ LockAtHand.sourcePath = <<"docs", "guide.md">>
    /\ LockAtHand.langs = <<"de", "es">>
    /\ LockAtHand.lock.outputs["es"].path = <<"o", "\\", "a">>
    /\ LockAtHand.lock.outputs["de"].context_hash = Undefined
    /\ LockAtHand.lock.outputs["es"].context_hash = <<"2">>
    /\ LockAtHand.lock.context_hash = Undefined
    /\ lockIo.read[1].found # <<>>

\* The context hashes of the LockFile that was compared
OwnContextHash ==
    LET lock == lockIo.read[1].found[1]
        lang == lockIo.hash[1].lang
    IN IF lang \in DOMAIN lock.outputs THEN field(lock.outputs[lang], "context_hash")
       ELSE Undefined
LegacyContextHash == field(lockIo.read[1].found[1], "context_hash")

\* C29: an Output Lock without a context hash of its own (absent or empty)
\* is compared through the record-wide context_hash, "" when that is
\* absent; one with its own context hash is compared through that one,
\* whatever the record-wide field holds.
C29_LegacyFallback ==
    lockIo.hash # <<>> =>
        LET own     == OwnContextHash
            legacy  == IF LegacyContextHash = Undefined THEN NoHash
                       ELSE LegacyContextHash
        IN lockIo.hash[1].same <=>
              IF own \in {Undefined, NoHash} THEN legacy = lockIo.hash[1].current
              ELSE own = lockIo.hash[1].current

\* The record read back gives es a context hash of its own and de none: de
\* matches the current hash through the record-wide one
C29_Witness ==
    /\ lockIo.hash # <<>>
    /\ "es" \in DOMAIN lockIo.read[1].found[1].outputs
    /\ field(lockIo.read[1].found[1].outputs["es"], "context_hash") = <<"1">>
    /\ lockIo.hash[1].lang = "de"
    /\ OwnContextHash = Undefined
    /\ LegacyContextHash = <<"2">>
    /\ lockIo.hash[1].current = <<"2">>
    /\ lockIo.hash[1].same

-----------------------------------------------------------------------------
(* SpecAgents: resolveAgents on one merged [llm] configuration              *)

\* An [[llm.agent]] table: the keys it sets
AgentTables(role, providers, urls, keys) ==
    { [role |-> role, model |-> "m"] } \cup
    { [role |-> role, model |-> "m", provider |-> pr, base_url |-> url,
       api_key |-> key] : pr \in providers, url \in urls, key \in keys }

\* The merged configurations resolveAgents is given: the keys of [llm]
\* shared by the agents, no coordinator table or one, no translator table
\* or one
AgentConfigs ==
    { [provider |-> pr, base_url |-> url, chat_completions_path |-> "",
       api_key |-> "", api_key_env |-> env,
       coordinator_model |-> "c", translator_model |-> "t",
       agent |-> coordinator \o translator] :
          pr \in {"", "openai", "anthropic"},
          url \in {"", "https://proxy"},
          env \in {"", "LLM_KEY"},
          coordinator \in {<<>>} \cup
              {<<a>> : a \in AgentTables("Coordinator",
                                        {"", "anthropic", "vertex", "local-claude"},
                                        {"", "https://c"}, {"", "k"})},
          translator \in {<<>>} \cup
              {<<a>> : a \in AgentTables("translator", {"", "openai"}, {""}, {""})} }

InitAgents ==
    /\ files = <<>>
    /\ walkOrder = <<>>
    /\ lockFiles = <<>>
    /\ clock = 0
    /\ PlanIdle
    /\ RunIdle
    /\ TextIdle
    /\ LockIdle
    /\ TranslateIdle
    /\ HistoryIdle
    /\ CleanIdle
    /\ \E cfg \in AgentConfigs :
          agentsOut = [cfg |-> <<cfg>>, called |-> FALSE,
                       coordinator |-> <<>>, translator |-> <<>>]

\* resolveAgents(cfg)
ResolveAgents ==
    /\ agentsOut.cfg # <<>>
    /\ ~agentsOut.called
    /\ roleError(agentsOut.cfg[1]) = ""
    /\ LET resolved == resolveAgents(agentsOut.cfg[1]) IN
       agentsOut' = [agentsOut EXCEPT !.called = TRUE,
                                      !.coordinator = resolved.coordinator,
                                      !.translator = resolved.translator]
    /\ UNCHANGED <<diskVars, planVars, runVars, textVars, lockIo, translateIo, history, cleanIo>>

NextAgents == ResolveAgents

SpecAgents == InitAgents /\ [][NextAgents]_vars

\* The translator table of the configuration sets none of the provider and
\* connection keys (or there is no translator table)
TranslatorLeavesUnset ==
    \A k \in SharedFields : BlankName(get(byRole(agentsOut.cfg[1], "translator"), k))

\* C26 as stated: when the translator agent leaves provider, base_url,
\* chat_completions_path, api_key and api_key_env unset, its resolved values
\* of these fields are the coordinator's resolved values.
C26_TranslatorInheritsCoordinator ==
    (agentsOut.called /\ TranslatorLeavesUnset) =>
        \A k \in SharedFields : agentsOut.translator[k] = agentsOut.coordinator[k]

-----------------------------------------------------------------------------
(* SpecTranslate: the request translateCmd builds for one pair and one      *)
(* iteration of translate on it                                             *)

\* Most lines of a source
MaxSourceLines == 3

SourceLines == { <<"---">>, <<"+++">>, <<" ", "---">>, <<"t">>, <<" ">> }

PairSources ==
    {joinParts(ls, <<"\n">>) : ls \in SeqsUpTo(SourceLines, MaxSourceLines) \ {<<>>}}

\* The --check-cmd of the run: absent, blank, set
FlagCmds == {"", " ", "flag {path}"}

\* The check_cmd of the directive: absent, set
EntryCmds == {"", "lint {path}"}

\* The check_cmds of the directive: absent, one for Markdown, a blank one
\* for Markdown, one for another format
EntryCmdTables ==
    { <<>>, ("markdown" :> "mdlint {path}"), ("markdown" :> " "),
      ("text" :> "txtlint {path}") }

InitTranslate ==
    /\ files = <<>>
    /\ walkOrder = <<>>
    /\ lockFiles = <<>>
    /\ clock = 0
    /\ PlanIdle
    /\ RunIdle
    /\ TextIdle
    /\ LockIdle
    /\ AgentsIdle
    /\ HistoryIdle
    /\ CleanIdle
    /\ \E fmt \in {"markdown", "text"}, mode \in {"preserve", "translate"},
          src \in PairSources, flagCmd \in FlagCmds, entryCmd \in EntryCmds,
          entryCmds \in EntryCmdTables :
          translateIo = [pair |-> << [format |-> fmt, frontmatter |-> mode,
                                     source |-> src, flagCmd |-> flagCmd,
                                     entryCmd |-> entryCmd,
                                     entryCmds |-> entryCmds] >>,
                         request |-> <<>>, sent |-> <<>>, reply |-> <<>>,
                         ran |-> <<>>, err |-> NoErr, returned |-> <<>>]

\* What the translator backend may answer: the content after a label, a
\* blank text, nothing, a text that opens a frontmatter block
PairReplies(content) ==
    { <<"es", ":">> \o content \o <<"\n">>, <<" ", "\n">>, <<>>,
      <<"---", "\n", "x">> }

\* translateCmd builds the request and calls translate, whose first
\* iteration gets a reply; the external command, when one runs, exits with
\* the status exit
Translate ==
    /\ translateIo.pair # <<>>
    /\ translateIo.request = <<>>
    /\ \E pair \in {translateIo.pair[1]} :
       \E split \in {requestSplit(pair.format, pair.frontmatter, pair.source)} :
       \E cmds \in {[checkCmd  |-> pickCheckCmd(pair.flagCmd, pair.entryCmd),
                     checkCmds |-> requestCheckCmds(pair.flagCmd, pair.entryCmds)]} :
       \E reply \in PairReplies(split.content), exit \in {0, 1} :
       \E translation \in {stripTrailingNewlines(reply)} :
       \E final \in {finalOf(split.frontmatter, translation)} :
       \E v \in {validatePhases(pair.format, final, pair.source, <<>>, cmds, exit)} :
          translateIo' = [translateIo EXCEPT
              !.request  = <<cmds>>,
              !.sent     = <<split.content>>,
              !.reply    = <<translation>>,
              !.ran      = v.ran,
              !.err      = v.err,
              !.returned = IF v.err = NoErr THEN <<final>> ELSE <<>>]
    /\ UNCHANGED <<diskVars, planVars, runVars, textVars, lockIo, agentsOut, history, cleanIo>>

NextTranslate == Translate

SpecTranslate == InitTranslate /\ [][NextTranslate]_vars

\* The pair of the call
Pair == translateIo.pair[1]

\* The lines of the source that repeat its first line, a fence
ClosingFences(src) ==
    LET lines == splitLines(src) IN
    {i \in 2..Len(lines) :
        /\ trim(lines[1]) \in {<<"---">>, <<"+++">>}
        /\ trim(lines[i]) = trim(lines[1])}

\* The frontmatter block of such a source, through its first closing fence,
\* and the text after the block
FirstClosing(src) == CHOOSE i \in ClosingFences(src) : \A j \in ClosingFences(src) : i <= j
FrontBlock(src) == joinParts(SubSeq(splitLines(src), 1, FirstClosing(src)), <<"\n">>)
AfterBlock(src) ==
    joinParts(SubSeq(splitLines(src), FirstClosing(src) + 1, Len(splitLines(src))),
              <<"\n">>)

\* A Markdown source in mode preserve that opens with a closed block
PreservedBlock ==
    /\ translateIo.request # <<>>
    /\ Pair.format = "markdown"
    /\ Pair.frontmatter = "preserve"
    /\ ClosingFences(Pair.source) # {}

\* C32 as stated: for such a source the content sent is the text after the
\* frontmatter block, and the text translate returns is the block, one
\* newline and the translation.
C32_BlockJoinedToTranslation ==
    PreservedBlock =>
        /\ translateIo.sent = <<AfterBlock(Pair.source)>>
        /\ translateIo.returned # <<>> =>
               translateIo.returned[1] =
                   FrontBlock(Pair.source) \o <<"\n">> \o translateIo.reply[1]

\* C32 as amended: the text translate returns is the block, one newline and
\* the translation when the translation is not blank; a blank translation
\* is dropped and the text is the block and one newline.
C32_BlockJoinedUnlessBlank ==
    PreservedBlock =>
        /\ translateIo.sent = <<AfterBlock(Pair.source)>>
        /\ translateIo.returned # <<>> =>
               translateIo.returned[1] =
                   FrontBlock(Pair.source) \o <<"\n">> \o
                   (IF trim(translateIo.reply[1]) = <<>> THEN <<>>
                    ELSE translateIo.reply[1])

\* A block of two lines before a body of one: the body alone is sent and
\* the block is put back before the translation
C32_Witness ==
    /\ PreservedBlock
    /\ Pair.source = <<"---", "\n", "---", "\n", "t">>
    /\ translateIo.sent = << <<"t">> >>
    /\ translateIo.returned = << <<"---", "\n", "---", "\n", "es", ":", "t">> >>

\* The command C33 names for the pair, "" when it names none
NamedCheckCmd ==
    IF ~BlankName(Pair.flagCmd) THEN Pair.flagCmd
    ELSE IF Pair.format \in DOMAIN Pair.entryCmds /\
            ~BlankName(Pair.entryCmds[Pair.format])
    THEN Pair.entryCmds[Pair.format]
    ELSE IF ~BlankName(Pair.entryCmd) THEN Pair.entryCmd
    ELSE ""

\* C33: the command validate selects from the request translateCmd built is
\* the --check-cmd of the run when that is not blank, else the directive's
\* check_cmds entry for the format when that is not blank, else the
\* directive's check_cmd; the external phase runs only when a command is
\* selected, and then whenever the syntax and preserve phases passed.
C33_CheckCmdPrecedence ==
    translateIo.request # <<>> =>
        /\ selectCheckCmd(Pair.format, translateIo.request[1].checkCmd,
                          translateIo.request[1].checkCmds) = NamedCheckCmd
        /\ "custom-command" \in Range(translateIo.ran) => NamedCheckCmd # ""
        /\ translateIo.err.tool \notin {"syntax-validator", "preserve-check"} =>
               ("custom-command" \in Range(translateIo.ran) <=> NamedCheckCmd # "")

\* The run has a --check-cmd and the directive a check_cmds entry for the
\* format: the external phase runs, on the command of the run
C33_Witness ==
    /\ translateIo.request # <<>>
    /\ Pair.format = "markdown"
    /\ Pair.flagCmd = "flag {path}"
    /\ Pair.entryCmds = ("markdown" :> "mdlint {path}")
    /\ Pair.entryCmd = "lint {path}"
    /\ translateIo.request[1] = [checkCmd |-> "flag {path}", checkCmds |-> <<>>]
    /\ "custom-command" \in Range(translateIo.ran)

-----------------------------------------------------------------------------
(* SpecRun: translateCmd run up to MaxRuns times on a small project, with   *)
(* at most one edit of the project after a run that ended without error     *)

\* Most translateCmd runs in a behaviour
MaxRuns == 2

Descriptor(entries, body, coordinatorModel, translatorModel) ==
    [translate |-> entries, body |-> body,
     llm |-> [coordinator_model |-> coordinatorModel,
              translator_model  |-> translatorModel]]

WithRetries(entry, r) == [entry EXCEPT !.retries = r]

\* A source with YAML frontmatter and a URL, and one without either
SrcGuide == <<"---", "\n", "t", "\n", "---", "\n", "see", " ",
               "h", "t", "t", "p", ":", "/", "/", "a">>
SrcIntro == <<"Intro">>

\* Two descriptors, one nested in the other; docs/guide.md inherits both
\* and is translated into es and de, intro.md inherits the root only.
ProjectNested(coordinatorModel, translatorModel, r) ==
    ( <<"L10N.md">> :> Descriptor(
          << WithRetries(Entry(<<"docs", "*.md">>, <<"es", "de">>, OutLangRel, <<>>), r),
             Entry(<<"*.md">>, <<"de">>, OutLangRel, <<>>) >>,
          <<"Product">>, coordinatorModel, translatorModel) ) @@
    ( <<"docs", "L10N.md">> :> Descriptor(<<>>, <<" ">>, "", " ") ) @@
    ( <<"L10N", "es.md">> :> Text(<<"Use", " ", "tu">>) ) @@
    ( <<"docs", "L10N", "de.md">> :> Text(<<" ">>) ) @@
    ( <<"docs", "guide.md">> :> Text(SrcGuide) ) @@
    ( <<"intro.md">> :> Text(SrcIntro) )

\* The outputs land below docs, where the source glob finds them
ProjectRematch ==
    ( <<"L10N.md">> :> Descriptor(
          << Entry(<<"docs", "**", "*.md">>, <<"es">>, OutI18n, <<>>) >>,
          <<"Product">>, "", "m") ) @@
    ( <<"docs", "guide.md">> :> Text(SrcIntro) )

\* The per-language context file L10N/es.md is itself a source; the
\* translator is a TranslateGemma model
ProjectContextSource ==
    ( <<"L10N.md">> :> Descriptor(
          << Entry(<<"L10N", "*.md">>, <<"es", "de">>, OutLangRel, <<>>),
             Entry(<<"docs", "*.md">>, <<"es", "de">>, OutLangRel, <<>>) >>,
          <<>>, "", "TranslateGemma") ) @@
    ( <<"L10N", "es.md">> :> Text(<<"Use", " ", "tu">>) ) @@
    ( <<"docs", "guide.md">> :> Text(SrcIntro) )

\* A directive that matches nothing
ProjectEmpty ==
    ( <<"L10N.md">> :> Descriptor(
          << Entry(<<"docs", "*.md">>, <<"es">>, OutLangRel, <<>>) >>,
          <<"Product">>, "", "m") )

\* One source docs/guide.md and the root descriptor given, beside whatever
\* else the project holds
ProjectOf(rootDescriptor, rest) ==
    ( <<"L10N.md">> :> rootDescriptor ) @@
    ( <<"docs", "guide.md">> :> Text(SrcIntro) ) @@ rest

GuideToEs == Entry(<<"docs", "*.md">>, <<"es">>, OutLangRel, <<>>)

\* The translation of docs/guide.md an earlier version of the project left
Translated == <<"out", "es", "docs", "guide.md">> :> Text(<<"Hola">>)

\* A nested descriptor whose header is opened and never closed
ProjectBadHeader ==
    ProjectOf(Descriptor(<<GuideToEs>>, <<"Product">>, "", "m"),
              ( <<"docs", "L10N.md">> :>
                    ([header |-> "unclosed"] @@ Descriptor(<<>>, <<>>, "", "")) ) @@
              Translated)

\* The directives validateTranslateEntry rejects
InvalidEntries ==
    { Entry(<<>>, <<"es">>, OutLangRel, <<>>),
      Entry(<<"docs", "*.md">>, <<>>, OutLangRel, <<>>),
      Entry(<<"docs", "*.md">>, <<"es">>, <<>>, <<>>),
      [frontmatter |-> "keep"] @@ GuideToEs }

\* A valid directive followed by one that is not
ProjectInvalid(entry) ==
    ProjectOf(Descriptor(<<GuideToEs, entry>>, <<"Product">>, "", "m"), Translated)

\* A descriptor with an [[llm.agent]] table of a role resolveAgents does not
\* know
WithAgent(descriptor, role) ==
    [descriptor EXCEPT !.llm = [agent |-> << [role |-> role, model |-> "m"] >>] @@ @]

\* The agent is declared in the root descriptor, an ancestor of the source
ProjectBadRole ==
    ProjectOf(WithAgent(Descriptor(<<GuideToEs>>, <<"Product">>, "", "m"), "reviewer"),
              Translated)

\* The target of the directive that wins the source has a separator
ProjectBadLang ==
    ProjectOf(Descriptor(<< Entry(<<"docs", "*.md">>, <<"es/mx">>, OutLangRel, <<>>) >>,
                         <<"Product">>, "", "m"), <<>>)

\* The agent is declared in a descriptor no source lies below, and the
\* directive with the separator in its target matches no file
ProjectSpareDefects ==
    ProjectOf(Descriptor(<< Entry(<<"notes", "*.md">>, <<"es/mx">>, OutLangRel, <<>>),
                            GuideToEs >>,
                         <<"Product">>, "", "m"),
              <<"guide", "L10N.md">> :>
                  WithAgent(Descriptor(<<>>, <<>>, "", ""), "reviewer"))

\* A project translated by an earlier run: the output and the lock file
\* that run left
ProjectTranslated ==
    ProjectOf(Descriptor(<<GuideToEs>>, <<"Product">>, "", "m"), Translated)

\* The lock files a run leaves that wrote the first output of the first
\* source of the project as it is on disk
locksOfFirstPair(fs) ==
    LET src == buildPlan(fs, SortPaths(DescriptorPaths(fs)))[1]
        tp  == translatePlan(fs, <<>>, src, FALSE)
        out == src.outputs[1]
    IN writeLock(<<>>, src.sourcePath,
           [tp.lock EXCEPT
               !.source_hash = tp.sourceHash,
               !.outputs = (out.lang :> OutputLock(out.outputPath,
                                                   hashString(readFile(fs, out.outputPath)),
                                                   tp.contextHashes[out.lang], 0)) @@ @],
           0)

Projects ==
    { ProjectNested("c", "m", <<1>>),
      ProjectNested(" ", "m", <<-1>>),
      ProjectNested("", "", <<0>>),
      ProjectRematch,
      ProjectContextSource,
      ProjectEmpty,
      ProjectTranslated,
      ProjectBadHeader,
      ProjectBadRole,
      ProjectBadLang,
      ProjectSpareDefects } \cup {ProjectInvalid(e) : e \in InvalidEntries}

\* The TranslateOptions a run is started with
RunOptions ==
    { [force |-> FALSE, dryRun |-> FALSE, retries |-> -1],
      [force |-> FALSE, dryRun |-> FALSE, retries |-> 0],
      [force |-> TRUE,  dryRun |-> FALSE, retries |-> -1],
      [force |-> FALSE, dryRun |-> TRUE,  retries |-> -1] }

InitRun ==
    /\ files \in Projects
    /\ walkOrder = SortPaths(DescriptorPaths(files))
    /\ lockFiles = IF files = ProjectTranslated THEN locksOfFirstPair(files) ELSE <<>>
    /\ clock = 1
    /\ PlanIdle
    /\ RunIdle
    /\ PureIdle
    /\ TextIdle

\* The plan item and the output the processing loop stands at
CurPlan == plans[planIdx]
CurOut  == CurPlan.source.outputs[outIdx]
AtOutput == pc = "pair" /\ outIdx <= Len(CurPlan.source.outputs)

\* translateCmd up to the processing loop: buildPlan, the planning loop, the
\* early return when nothing is stale
StartRun(o) ==
    /\ pc \in {"idle", "done", "failed", "killed"}
    /\ runs < MaxRuns
    /\ cmdOut = NoCmd
    \* const pl = await buildPlan(root), then the planning loop over pl.sources
    /\ \E pl \in {planOf(files, walkOrder)} :
       \E tps \in {translatePlans(files, lockFiles, pl.sources, o.force)} :
          /\ plans' = IF pl.failed # "" THEN <<>> ELSE tps
          /\ total' = IF pl.failed # "" THEN 0 ELSE totalOf(tps)
          /\ pc' = IF pl.failed # "" THEN "failed"
                   ELSE IF totalOf(tps) = 0 THEN "done" ELSE "pair"
          /\ lastErr' = IF pl.failed # ""
                        THEN [kind |-> "fatal", tool |-> "", message |-> pl.failed]
                        ELSE NoErr
    /\ opts' = o
    /\ runs' = runs + 1
    /\ current' = 0
    /\ planIdx' = 1
    /\ outIdx' = 1
    /\ updated' = FALSE
    /\ req' = NoReq
    /\ brief' = <<>>
    /\ attempt' = 0
    /\ trace' = [NoTrace EXCEPT !.prev = pc, !.prevDry = opts.dryRun,
                                !.prevWrites = trace.writes, !.edit = edited,
                                !.fresh = TRUE, !.torn = trace.torn]
    /\ edited' = <<>>
    /\ UNCHANGED <<diskVars, planVars, textVars, pureVars, cmdOut>>

\* if (!planItem.translate[output.lang]) continue
SkipPair ==
    /\ AtOutput
    /\ ~CurPlan.translate[CurOut.lang]
    /\ outIdx' = outIdx + 1
    /\ trace' = [trace EXCEPT !.fresh = FALSE]
    /\ UNCHANGED <<pc, opts, plans, total, current, planIdx, updated, req, brief,
                   attempt, lastErr, runs, edited>>
    /\ UNCHANGED <<diskVars, planVars, textVars, pureVars, cmdOut>>

\* if (opts.dryRun) { ...; current = step; continue }
DryRunPair ==
    /\ AtOutput
    /\ CurPlan.translate[CurOut.lang]
    /\ opts.dryRun
    /\ current' = current + 1
    /\ outIdx' = outIdx + 1
    /\ trace' = [trace EXCEPT !.fresh = FALSE]
    /\ UNCHANGED <<pc, opts, plans, total, planIdx, updated, req, brief,
                   attempt, lastErr, runs, edited>>
    /\ UNCHANGED <<diskVars, planVars, textVars, pureVars, cmdOut>>

\* The TranslationRequest translateCmd builds for the pair
requestOf(tp, output, o) ==
    [sourcePath  |-> tp.source.sourcePath,
     outputPath  |-> output.outputPath,
     targetLang  |-> output.lang,
     format      |-> tp.source.format,
     frontmatter |-> tp.source.entry.frontmatter,
     source      |-> tp.sourceBytes,
     context     |-> joinParts(contextPartsFor(tp.source, output.lang), <<"\n", "\n">>),
     preserve    |-> <<>>,
     retries     |-> resolveRetries(o.retries, tp.source.entry.retries),
     coordinator |-> tp.source.llm.coordinator,
     translator  |-> tp.source.llm.translator]

FailedPair(request, stage) ==
    << [sourcePath |-> request.sourcePath, lang |-> request.targetLang,
        stage |-> stage] >>

skippedOnFailure == "pair"

\* Where an error thrown by translate leaves translateCmd: no try encloses
\* the call, the run ends
abortedOnFailure == "failed"

\* The call of translate up to the retry loop: the request, then buildBrief,
\* which asks the coordinator backend when a coordinator model is set.  An
\* error of that request leaves translate and translateCmd at once.
BeginTranslate ==
    /\ AtOutput
    /\ CurPlan.translate[CurOut.lang]
    /\ ~opts.dryRun
    /\ LET request == requestOf(CurPlan, CurOut, opts)
           started == [trace EXCEPT !.fresh = FALSE, !.attempts = 0,
                                    !.requests = 0, !.passedAt = 0,
                                    !.briefs = 1, !.asked = 0, !.sent = <<>>,
                                    !.failure = NoErr, !.validated = <<>>]
       IN /\ req' = request
          /\ attempt' = 0
          /\ IF briefNeedsCoordinator(request)
             THEN \/ \E answer \in CoordinatorBriefs :
                       /\ brief' = answer
                       /\ pc' = "attempt"
                       /\ lastErr' = NoErr
                       /\ trace' = [started EXCEPT !.coordinator = @ + 1,
                                                   !.asked = 1]
                  \/ \E why \in BackendFailures :
                       /\ brief' = <<>>
                       /\ pc' = abortedOnFailure
                       /\ lastErr' = BackendError("coordinator", why)
                       /\ trace' = [started EXCEPT !.coordinator = @ + 1,
                                        !.asked = 1,
                                        !.failed = FailedPair(request, "brief")]
             ELSE /\ brief' = defaultBrief(request.format, request.frontmatter)
                  /\ pc' = "attempt"
                  /\ lastErr' = NoErr
                  /\ trace' = started
    /\ UNCHANGED <<opts, plans, total, current, planIdx, outIdx, updated, runs, edited>>
    /\ UNCHANGED <<diskVars, planVars, textVars, pureVars, cmdOut>>

\* What the translator backend may answer to a request for the content: a
\* translation that keeps every token of the content, or a text that opens
\* a frontmatter block it never closes and keeps no token
Replies(request) ==
    { <<request.targetLang, ":">> \o splitRequest(request.source).content \o <<"\n">>,
      <<"---", "\n", request.targetLang>> }

\* writeFile(outputAbs, translation)
writeFile(fs, path, text) ==
    [p \in (DOMAIN fs) \cup {path} |-> IF p = path THEN Text(text) ELSE fs[p]]

\* The update with an outputs map that holds the written language alone
lockAfterWriteAlone(tp, output, translation, now) ==
    [tp.lock EXCEPT
        !.source_hash = tp.sourceHash,
        !.outputs = (output.lang :> OutputLock(output.outputPath,
                                               hashString(translation),
                                               tp.contextHashes[output.lang],
                                               now))]

\* The in-memory update of planItem.lock after a write
lockAfterWrite(tp, output, translation, now) ==
    [tp.lock EXCEPT
        !.source_hash = tp.sourceHash,
        !.outputs = (output.lang :> OutputLock(output.outputPath,
                                               hashString(translation),
                                               tp.contextHashes[output.lang],
                                               now)) @@ @]

\* The request translateOnce sends in this iteration, as the trace keeps it
Sent(request) ==
    << [request |-> request, brief |-> brief, iteration |-> attempt,
        after |-> trace.failure] >>

\* One iteration of the retry loop that fails: lastErr is set and the loop
\* variable advances.  sent is the request of the iteration, <<>> when the
\* iteration sent none.
AttemptFails(err, sent) ==
    /\ lastErr' = caught(lastErr, err)
    /\ attempt' = attempt + 1
    /\ trace' = [trace EXCEPT !.attempts = @ + 1,
                              !.requests = @ + Len(sent),
                              !.translator = @ + Len(sent),
                              !.sent = IF sent = <<>> THEN @ ELSE sent,
                              !.failure = err]
    /\ UNCHANGED <<pc, plans, current, outIdx, updated>>
    /\ UNCHANGED diskVars

\* return final
returned(final, translation) == final

\* A loop that returns the text whatever validate said
validatedAlways(err) == TRUE

\* await validate(...) came back without throwing: return final is reached
validated(err) == err = NoErr

\* One iteration that passes validation: translate returns, translateCmd
\* writes the output and updates the lock of the plan item in memory
AttemptPasses(final, translation, sent) ==
    LET text == returned(final, translation) IN
    /\ files' = writeFile(files, req.outputPath, text)
    /\ clock' = clock + 1
    /\ plans' = [plans EXCEPT ![planIdx].lock =
                     lockAfterWrite(CurPlan, CurOut, text, clock)]
    /\ updated' = TRUE
    /\ current' = current + 1
    /\ outIdx' = outIdx + 1
    /\ pc' = "pair"
    /\ trace' = [trace EXCEPT
           !.attempts = @ + 1, !.requests = @ + 1, !.translator = @ + 1,
           !.passedAt = trace.attempts + 1,
           !.sent = sent,
           !.validated = <<final>>,
           !.writes = @ \cup {req.outputPath},
           !.torn = @ \ {req.outputPath},
           !.written = Append(@, [sourcePath   |-> req.sourcePath,
                                  lang         |-> req.targetLang,
                                  path         |-> req.outputPath,
                                  hash         |-> hashString(text),
                                  context_hash |-> CurPlan.contextHashes[req.targetLang],
                                  source_hash  |-> CurPlan.sourceHash])]
    /\ UNCHANGED <<lastErr, attempt, walkOrder, lockFiles>>

\* One iteration of the retry loop of translate: translateOnce, the
\* frontmatter put back, validate
Attempt ==
    /\ pc = "attempt"
    /\ loopContinues(attempt, attemptsOf(req))
    /\ IF translatorModelMissing(req)
       THEN AttemptFails(MissingModel, <<>>)
       ELSE LET content == splitRequest(req.source).content
                sent    == Sent(translatorRequest(req, brief, content, lastErr))
            IN \/ \E why \in BackendFailures :
                      AttemptFails(BackendError("translator", why), sent)
               \/ \E reply \in Replies(req) :
                      LET translation == stripTrailingNewlines(reply)
                          final == finalOf(splitRequest(req.source).frontmatter, translation)
                          err   == validate(final, req.source, req.preserve)
                      IN IF ~validated(err) THEN AttemptFails(err, sent)
                         ELSE AttemptPasses(final, translation, sent)
    /\ UNCHANGED <<opts, total, planIdx, req, brief, runs, edited>>
    /\ UNCHANGED <<planVars, textVars, pureVars, cmdOut>>

\* throw lastErr ?? new Error("translation failed"): the error leaves
\* translate and, uncaught, translateCmd
Exhausted ==
    /\ pc = "attempt"
    /\ ~loopContinues(attempt, attemptsOf(req))
    /\ pc' = abortedOnFailure
    /\ lastErr' = IF lastErr = NoErr
                  THEN [kind |-> "fatal", tool |-> "", message |-> "translation failed"]
                  ELSE lastErr
    /\ trace' = [trace EXCEPT !.failed = FailedPair(req, "attempts")]
    /\ UNCHANGED <<opts, plans, total, current, planIdx, outIdx, updated, req,
                   brief, attempt, runs, edited>>
    /\ UNCHANGED <<diskVars, planVars, textVars, pureVars, cmdOut>>

\* The end of the inner loop: writeLock unless a dry run or nothing was
\* written for the source; then the next source, or the end of the run
FinishSource ==
    /\ pc = "pair"
    /\ outIdx > Len(CurPlan.source.outputs)
    /\ IF opts.dryRun \/ ~updated
       THEN /\ UNCHANGED <<lockFiles, clock>>
            /\ trace' = [trace EXCEPT !.fresh = FALSE]
       ELSE /\ lockFiles' = writeLock(lockFiles, CurPlan.source.sourcePath,
                                      CurPlan.lock, clock)
            /\ clock' = clock + 1
            /\ trace' = [trace EXCEPT !.fresh = FALSE,
                             !.lockWrites = @ \cup {CurPlan.source.sourcePath}]
    /\ IF planIdx = Len(plans)
       THEN /\ pc' = "done"
            /\ UNCHANGED <<planIdx, outIdx, updated>>
       ELSE /\ pc' = "pair"
            /\ planIdx' = planIdx + 1
            /\ outIdx' = 1
            /\ updated' = FALSE
    /\ UNCHANGED <<opts, plans, total, current, req, brief, attempt, lastErr,
                   runs, edited>>
    /\ UNCHANGED <<files, walkOrder, planVars, textVars, pureVars, cmdOut>>

\* ---- edits of the project between two runs -------------------------------

Langs == {"es", "de"}

\* Bodies an edit gives a context file: a blank one and a new text
ContextBodies == { <<"\n">>, <<"Du">> }

\* An edit follows a run that ended without error; at most one is made
BetweenRuns == pc = "done" /\ edited = <<>> /\ runs < MaxRuns /\ cmdOut = NoCmd

\* The files named L10N/<lang>.md
LangContextPaths(fs) ==
    {p \in DOMAIN fs : /\ Len(p) >= 2
                       /\ p[Len(p) - 1] = "L10N"
                       /\ \E lang \in Langs : p[Len(p)] = lang \o ".md"}

PlannedSources == {plans[i].source.sourcePath : i \in 1..Len(plans)}

PlannedOutputs ==
    UNION {{plans[i].source.outputs[k].outputPath :
                k \in 1..Len(plans[i].source.outputs)} : i \in 1..Len(plans)}

Edited(kind, path) ==
    [kind |-> kind, path |-> path,
     old |-> IF path \in DOMAIN files THEN <<files[path]>> ELSE <<>>]

\* The body of a per-language context file is changed
EditLangContext ==
    /\ BetweenRuns
    /\ \E p \in LangContextPaths(files), b \in ContextBodies :
          /\ b # files[p].body
          /\ files' = [files EXCEPT ![p] = Text(b)]
          /\ edited' = Edited("lang-context", p)
    /\ UNCHANGED <<walkOrder, lockFiles, clock, planVars, textVars, pureVars, cmdOut>>
    /\ trace' = [trace EXCEPT !.fresh = FALSE]
    /\ UNCHANGED <<pc, opts, plans, total, current, planIdx, outIdx, updated,
                   req, brief, attempt, lastErr, runs>>

\* A source of the last plan is changed
EditSource ==
    /\ BetweenRuns
    /\ \E p \in PlannedSources :
          /\ files' = [files EXCEPT ![p] = Text(Append(files[p].body, "!"))]
          /\ edited' = Edited("source", p)
    /\ UNCHANGED <<walkOrder, lockFiles, clock, planVars, textVars, pureVars, cmdOut>>
    /\ trace' = [trace EXCEPT !.fresh = FALSE]
    /\ UNCHANGED <<pc, opts, plans, total, current, planIdx, outIdx, updated,
                   req, brief, attempt, lastErr, runs>>

\* An output of the last plan is changed by hand
EditOutput ==
    /\ BetweenRuns
    /\ \E p \in PlannedOutputs \cap DOMAIN files :
          /\ files' = [files EXCEPT ![p] = Text(Append(files[p].body, "!"))]
          /\ edited' = Edited("output", p)
    /\ UNCHANGED <<walkOrder, lockFiles, clock, planVars, textVars, pureVars, cmdOut>>
    /\ trace' = [trace EXCEPT !.fresh = FALSE]
    /\ UNCHANGED <<pc, opts, plans, total, current, planIdx, outIdx, updated,
                   req, brief, attempt, lastErr, runs>>

\* An output of the last plan is deleted
DeleteOutput ==
    /\ BetweenRuns
    /\ \E p \in PlannedOutputs \cap DOMAIN files :
          /\ files' = [q \in (DOMAIN files) \ {p} |-> files[q]]
          /\ edited' = Edited("delete-output", p)
    /\ UNCHANGED <<walkOrder, lockFiles, clock, planVars, textVars, pureVars, cmdOut>>
    /\ trace' = [trace EXCEPT !.fresh = FALSE]
    /\ UNCHANGED <<pc, opts, plans, total, current, planIdx, outIdx, updated,
                   req, brief, attempt, lastErr, runs>>

\* A lock file is rewritten with new times and nothing else changed
TouchLock ==
    /\ BetweenRuns
    /\ \E s \in DOMAIN lockFiles :
          /\ lockFiles' = [lockFiles EXCEPT ![s] =
                 [@ EXCEPT !.updated_at = clock,
                           !.outputs = [lang \in DOMAIN @ |->
                                           [@[lang] EXCEPT !.checked_at = clock]]]]
          /\ edited' = [kind |-> "touch-lock", path |-> s, old |-> <<>>]
    /\ clock' = clock + 1
    /\ UNCHANGED <<files, walkOrder, planVars, textVars, pureVars, cmdOut>>
    /\ trace' = [trace EXCEPT !.fresh = FALSE]
    /\ UNCHANGED <<pc, opts, plans, total, current, planIdx, outIdx, updated,
                   req, brief, attempt, lastErr, runs>>

\* The output template of the first directive of the root descriptor is
\* changed
RetargetOutput ==
    /\ BetweenRuns
    /\ <<"L10N.md">> \in DOMAIN files
    /\ files[<<"L10N.md">>].translate # <<>>
    /\ files[<<"L10N.md">>].translate[1].output # OutDeepLangRel
    /\ files' = [files EXCEPT ![<<"L10N.md">>].translate[1].output = OutDeepLangRel]
    /\ edited' = Edited("retarget", <<"L10N.md">>)
    /\ UNCHANGED <<walkOrder, lockFiles, clock, planVars, textVars, pureVars, cmdOut>>
    /\ trace' = [trace EXCEPT !.fresh = FALSE]
    /\ UNCHANGED <<pc, opts, plans, total, current, planIdx, outIdx, updated,
                   req, brief, attempt, lastErr, runs>>

\* ---- the other commands ---------------------------------------------------

\* status, check and clean are followed on a project no run has touched and
\* after a run that finished or was killed, while another run may follow; a
\* behaviour is not followed past the first of them
CmdPoint ==
    /\ cmdOut = NoCmd
    /\ \/ pc = "idle"
       \/ pc \in {"done", "killed"} /\ runs < MaxRuns

\* statusCmd(root)
StatusCmd ==
    /\ CmdPoint
    /\ \E pl \in {planOf(files, walkOrder)} :
       cmdOut' = IF pl.failed # ""
                 THEN [NoCmd EXCEPT !.cmd = "status", !.failed = pl.failed]
                 ELSE LET st == statusCmd(files, lockFiles, pl.sources) IN
                      [NoCmd EXCEPT !.cmd = "status", !.report = st.report,
                                    !.failed = st.failed]
    /\ trace' = [trace EXCEPT !.fresh = FALSE]
    /\ UNCHANGED <<pc, opts, plans, total, current, planIdx, outIdx, updated,
                   req, brief, attempt, lastErr, runs, edited>>
    /\ UNCHANGED <<diskVars, planVars, textVars, pureVars>>

\* checkCmd(root)
CheckCmd ==
    /\ CmdPoint
    /\ \E pl \in {planOf(files, walkOrder)} :
       cmdOut' = [NoCmd EXCEPT !.cmd = "check",
                               !.failed = IF pl.failed # "" THEN pl.failed
                                          ELSE checkCmd(files, pl.sources)]
    /\ trace' = [trace EXCEPT !.fresh = FALSE]
    /\ UNCHANGED <<pc, opts, plans, total, current, planIdx, outIdx, updated,
                   req, brief, attempt, lastErr, runs, edited>>
    /\ UNCHANGED <<diskVars, planVars, textVars, pureVars>>

\* cleanCmd(root, {dryRun, orphans})
CleanCmd ==
    /\ CmdPoint
    /\ \E pl \in {planOf(files, walkOrder)} :
       \E dryRun \in BOOLEAN, orphans \in BOOLEAN :
          IF pl.failed # ""
          THEN /\ cmdOut' = [NoCmd EXCEPT !.cmd = "clean", !.dryRun = dryRun,
                                          !.failed = pl.failed]
               /\ UNCHANGED <<files, lockFiles>>
          ELSE LET done == cleanCmd(files, lockFiles, pl.sources, dryRun, orphans) IN
               /\ cmdOut' = [NoCmd EXCEPT !.cmd = "clean", !.dryRun = dryRun,
                                          !.removed = done.removed,
                                          !.removedLocks = done.removedLocks]
               /\ files' = done.files
               /\ lockFiles' = done.locks
    /\ trace' = [trace EXCEPT !.fresh = FALSE]
    /\ UNCHANGED <<pc, opts, plans, total, current, planIdx, outIdx, updated,
                   req, brief, attempt, lastErr, runs, edited>>
    /\ UNCHANGED <<walkOrder, clock, planVars, textVars, pureVars>>

\* ---- the end of the process in the middle of a run -----------------------

\* The process is terminated between two steps of the run: what it held in
\* memory is lost, what it wrote stays
Kill ==
    /\ pc \in {"pair", "attempt"}
    /\ pc' = "killed"
    /\ plans' = <<>>
    /\ total' = 0
    /\ current' = 0
    /\ planIdx' = 0
    /\ outIdx' = 0
    /\ updated' = FALSE
    /\ req' = NoReq
    /\ brief' = <<>>
    /\ attempt' = 0
    /\ lastErr' = NoErr
    /\ trace' = [NoTrace EXCEPT !.writes = trace.writes,
                                !.lockWrites = trace.lockWrites,
                                !.torn = trace.torn]
    /\ UNCHANGED <<opts, runs, edited, cmdOut>>
    /\ UNCHANGED <<diskVars, planVars, textVars, pureVars>>

\* The process is terminated inside writeFile(outputAbs, translation), after
\* translate returned a text that passed validate: the file is there, cut
\* at its start, and the lock of the plan item, changed in memory only
\* after the write, is lost
KillInWrite ==
    /\ pc = "attempt"
    /\ loopContinues(attempt, attemptsOf(req))
    /\ ~translatorModelMissing(req)
    /\ \E reply \in Replies(req) :
          validate(finalOf(splitRequest(req.source).frontmatter,
                           stripTrailingNewlines(reply)),
                   req.source, req.preserve) = NoErr
    /\ files' = writeFile(files, req.outputPath, <<>>)
    /\ pc' = "killed"
    /\ plans' = <<>>
    /\ total' = 0
    /\ current' = 0
    /\ planIdx' = 0
    /\ outIdx' = 0
    /\ updated' = FALSE
    /\ req' = NoReq
    /\ brief' = <<>>
    /\ attempt' = 0
    /\ lastErr' = NoErr
    /\ trace' = [NoTrace EXCEPT !.writes = trace.writes \cup {req.outputPath},
                                !.lockWrites = trace.lockWrites,
                                !.torn = trace.torn \cup {req.outputPath}]
    /\ UNCHANGED <<opts, runs, edited, cmdOut>>
    /\ UNCHANGED <<walkOrder, lockFiles, clock, planVars, textVars, pureVars>>

NextRun ==
    \/ \E o \in RunOptions : StartRun(o)
    \/ SkipPair
    \/ DryRunPair
    \/ BeginTranslate
    \/ Attempt
    \/ Exhausted
    \/ FinishSource
    \/ EditLangContext
    \/ EditSource
    \/ EditOutput
    \/ DeleteOutput
    \/ TouchLock
    \/ RetargetOutput
    \/ StatusCmd
    \/ CheckCmd
    \/ CleanCmd
    \/ Kill
    \/ KillInWrite

SpecRun == InitRun /\ [][NextRun]_vars

\* ---- what the claims speak of --------------------------------------------

\* The plan item of the pair in translate()
ReqPlan == plans[CHOOSE i \in 1..Len(plans) : plans[i].source.sourcePath = req.sourcePath]

\* The pairs the planning loop of the run marked for processing
Marked ==
    UNION {{<<plans[i].source.sourcePath, lang>> :
                lang \in {l \in DOMAIN plans[i].translate : plans[i].translate[l]}} :
           i \in 1..Len(plans)}

\* A run that ended without error and was no dry run came before this one
AfterSuccessfulRun == runs >= 2 /\ trace.prev = "done" /\ ~trace.prevDry

\* C2: when a language of a source was written and a later language of the
\* same source failed all of its attempts, the lock file of the source on
\* disk holds the written language's Output Lock and the new source hash.
C2_SiblingLockPersisted ==
    (pc = "failed" /\ trace.failed # <<>> /\ trace.failed[1].stage = "attempts") =>
        \A k \in 1..Len(trace.written) :
            LET w == trace.written[k] IN
            w.sourcePath = trace.failed[1].sourcePath =>
                /\ w.sourcePath \in DOMAIN lockFiles
                /\ lockFiles[w.sourcePath].source_hash = w.source_hash
                /\ w.lang \in DOMAIN lockFiles[w.sourcePath].outputs
                /\ lockFiles[w.sourcePath].outputs[w.lang].path = w.path
                /\ lockFiles[w.sourcePath].outputs[w.lang].hash = w.hash
                /\ lockFiles[w.sourcePath].outputs[w.lang].context_hash = w.context_hash

\* The conditions C3 lists, read off the disk
StoredContextHash(lock, lang) ==
    IF lock.outputs[lang].context_hash # NoHash
    THEN lock.outputs[lang].context_hash ELSE lock.context_hash

ListedUpToDate(src, output) ==
    /\ output.outputPath \in DOMAIN files
    /\ src.sourcePath \in DOMAIN lockFiles
    /\ lockFiles[src.sourcePath].source_hash = <<"sha256", files[src.sourcePath].body>>
    /\ output.lang \in DOMAIN lockFiles[src.sourcePath].outputs
    /\ lockFiles[src.sourcePath].outputs[output.lang].path = output.outputPath
    /\ StoredContextHash(lockFiles[src.sourcePath], output.lang) =
           <<"sha256", joinParts(src.contextBodies \o src.langContextBodies[output.lang],
                                 <<"\n", "\n">>)>>

\* C3: without --force the planning loop leaves a pair unmarked iff the
\* output file exists, the source has a lock file whose source hash is the
\* hash of the source's bytes and which holds an Output Lock for the
\* language with the resolved output path, and the stored context hash is
\* the hash of the general and per-language context joined by "\n\n"; with
\* --force every pair is marked.
C3_UpToDateIff ==
    (trace.fresh /\ pc \in {"pair", "done"}) =>
        \A i \in 1..Len(plans) : \A k \in 1..Len(plans[i].source.outputs) :
            LET src == plans[i].source
                output == src.outputs[k]
            IN plans[i].translate[output.lang] <=>
                   (opts.force \/ ~ListedUpToDate(src, output))

\* A run without --force that follows a change of times in a lock file or
\* of an output's text finds a pair up to date, and one that follows the
\* deletion of an output finds a pair stale.
C3_Witness ==
    /\ trace.fresh /\ ~opts.force /\ pc = "pair"
    /\ trace.edit # <<>> /\ trace.edit.kind = "delete-output"
    /\ \E i \in 1..Len(plans) :
          /\ \E l \in DOMAIN plans[i].translate : plans[i].translate[l]
          /\ \E l \in DOMAIN plans[i].translate : ~plans[i].translate[l]

\* C4: a run without --force that follows a run ended without error (no dry
\* run), with no edit in between, finds no stale pair, asks no backend and
\* writes no output and no lock file.
C4_RerunIsNoop ==
    (AfterSuccessfulRun /\ trace.edit = <<>> /\ ~opts.force) =>
        /\ total = 0
        /\ trace.coordinator = 0 /\ trace.translator = 0
        /\ trace.writes = {} /\ trace.lockWrites = {}

\* The language of a file named <lang>.md
LangOf(p) == CHOOSE lang \in Langs : p[Len(p)] = lang \o ".md"

\* The pairs (s, lang) of the run's plan whose source s has, in its ancestor
\* chain, the descriptor beside the context file p = <dir>/L10N/<lang>.md
InheritingPairs(p) ==
    LET dir == SubSeq(p, 1, Len(p) - 2) IN
    {<<plans[i].source.sourcePath, LangOf(p)>> : i \in
        {j \in 1..Len(plans) :
            /\ LangOf(p) \in DOMAIN plans[j].translate
            /\ (dir \o <<DescriptorName>>) \in DOMAIN files
            /\ IsPrefix(dir, plans[j].source.sourcePath)}}

\* The pairs a run without --force would mark on the files fs
StaleIn(fs) ==
    LET tps == translatePlans(fs, lockFiles, buildPlan(fs, walkOrder), FALSE) IN
    UNION {{<<tps[i].source.sourcePath, lang>> :
                lang \in {l \in DOMAIN tps[i].translate : tps[i].translate[l]}} :
           i \in 1..Len(tps)}

AfterLangContextEdit ==
    /\ trace.fresh /\ ~opts.force /\ pc \in {"pair", "done"}
    /\ trace.edit # <<>>
    /\ trace.edit.kind = "lang-context"

\* C5 as claimed: after a successful run and a change of the body of one
\* L10N/<lang>.md alone, the stale pairs are exactly the pairs (s, lang) of
\* the sources s that inherit the file.
C5_LangContextInvalidatesExactly ==
    (AfterLangContextEdit /\ AfterSuccessfulRun) =>
        Marked = InheritingPairs(trace.edit.path)

\* C5 as amended: a change of the body of one L10N/<lang>.md that is not
\* itself a source changes the staleness of no pair but the pairs (s, lang)
\* of the sources s that inherit the file; each of those that was up to
\* date is stale after the change when the old or the new body is not
\* blank, and no pair changes when both are blank.
C5_LangContextAddsExactly ==
    (AfterLangContextEdit /\ trace.edit.path \notin PlannedSources) =>
        LET p       == trace.edit.path
            before  == StaleIn([files EXCEPT ![p] = trace.edit.old[1]])
            changed == ~(Blank(trace.edit.old[1].body) /\ Blank(files[p].body))
        IN /\ (Marked \ before) \cup (before \ Marked) \subseteq InheritingPairs(p)
           /\ changed => (InheritingPairs(p) \ before) \subseteq Marked
           /\ ~changed => Marked = before

\* After a successful run, docs/L10N/de.md gets a body that is not blank:
\* de of docs/guide.md is stale, es of it and de of intro.md are not.
C5_Witness ==
    /\ AfterLangContextEdit /\ AfterSuccessfulRun
    /\ trace.edit.path = <<"docs", "L10N", "de.md">>
    /\ ~Blank(files[trace.edit.path].body)
    /\ PlannedSources = {<<"docs", "guide.md">>, <<"intro.md">>}
    /\ Marked = {<< <<"docs", "guide.md">>, "de" >>}

\* The retries C8 names: --retries when >= 0, else the directive's retries
\* when set and >= 0, else 2
ClaimedRetries ==
    IF opts.retries >= 0 THEN opts.retries
    ELSE LET r == ReqPlan.source.entry.retries IN
         IF r # <<>> /\ r[1] >= 0 THEN r[1] ELSE 2

FailedAfterAttempts ==
    pc = "failed" /\ trace.failed # <<>> /\ trace.failed[1].stage = "attempts"

\* C8: the retry loop of a pair runs at most 1 + retries times, exactly
\* 1 + retries times when every attempt fails, and not again once an
\* attempt has passed validation; each attempt asks the translator once.
C8_AttemptsAreOnePlusRetries ==
    req # NoReq =>
        /\ trace.attempts <= 1 + ClaimedRetries
        /\ FailedAfterAttempts =>
               trace.attempts = 1 + ClaimedRetries /\ trace.passedAt = 0
        /\ trace.passedAt # 0 => trace.attempts = trace.passedAt
        /\ trace.requests <= trace.attempts
        /\ ~translatorModelMissing(req) => trace.requests = trace.attempts

\* A pair whose directive sets retries = 1, run without --retries, fails
\* after two attempts.
C8_Witness ==
    /\ FailedAfterAttempts
    /\ opts.retries < 0
    /\ ReqPlan.source.entry.retries = <<1>>
    /\ trace.attempts = 2
    /\ trace.requests = 2

\* C9: a pair that fails with a backend error has used all 1 + retries
\* attempts, whichever role's backend failed.
C9_BackendFailureIsRecoverable ==
    (pc = "failed" /\ lastErr.kind = "backend") =>
        /\ trace.failed[1].stage = "attempts"
        /\ trace.attempts = 1 + attemptsOf(req)

\* C10: the missing-model error fails the pair at once: the loop variable
\* has not advanced and the loop is not entered again.
C10_MissingModelAbortsAtOnce ==
    lastErr = MissingModel => (pc = "failed" /\ attempt = 0)

\* ---- the requests of translate() ------------------------------------------

\* The feedback the claim asks of a request sent after the failure err
FeedbackFor(err) ==
    << "Previous output failed validation: " \o messageOf(err),
       "Return a corrected full translation." >>

\* The last request sent carries the feedback due at its iteration
SentWithFeedback(s) ==
    IF s.iteration = 0 THEN s.request.feedback = <<>>
    ELSE s.after # NoErr /\ s.request.feedback = FeedbackFor(s.after)

C12_LastFailureOrValidatedText ==
    /\ (pc = "failed" /\ trace.failed # <<>> /\ trace.failed[1].stage = "attempts")
           => (lastErr # NoErr /\ lastErr = trace.failure)
    /\ trace.validated # <<>> =>
           LET w == trace.written[Len(trace.written)] IN
           /\ w.sourcePath = req.sourcePath /\ w.lang = req.targetLang
           /\ w.hash = hashString(trace.validated[1])
           /\ validate(trace.validated[1], req.source, req.preserve) = NoErr

\* A pair failed by a last failure other than the one before it, the last
\* request having been sent after a different failure.
C12_Witness ==
    /\ pc = "failed"
    /\ trace.failed # <<>> /\ trace.failed[1].stage = "attempts"
    /\ trace.attempts >= 2
    /\ trace.sent # <<>> /\ trace.sent[1].after # NoErr
    /\ trace.sent[1].after # lastErr

\* C13: from the first iteration on, buildBrief has run once for the pair
\* and asked the coordinator backend at most once, not at all when the
\* coordinator has no model, the brief then being the static one of the
\* pair's format and frontmatter mode; every iteration is handed that brief.
C13_BriefBuiltOnce ==
    (pc = "attempt" \/ trace.attempts > 0) =>
        /\ trace.briefs = 1
        /\ trace.asked <= 1
        /\ BlankName(req.coordinator.model) =>
               /\ trace.asked = 0
               /\ brief = defaultBrief(req.format, req.frontmatter)
        /\ \A i \in 1..Len(trace.sent) :
               /\ trace.sent[i].brief = brief
               /\ ~trace.sent[i].request.gemma => trace.sent[i].request.system = <<brief>>

\* A third iteration's request carrying the brief the coordinator gave.
C13_Witness ==
    /\ trace.sent # <<>>
    /\ trace.sent[1].iteration = 2
    /\ trace.asked = 1
    /\ brief \in CoordinatorBriefs

\* ---- the end of a failed run ----------------------------------------------

\* The place of a written pair in the order of the processing loop
PlanIndexOf(path) == CHOOSE i \in 1..Len(plans) : plans[i].source.sourcePath = path
OutIndexOf(i, lang) ==
    CHOOSE k \in 1..Len(plans[i].source.outputs) : plans[i].source.outputs[k].lang = lang

\* The pair w comes before the pair at (planIdx, outIdx)
WrittenBeforeFailure(w) ==
    LET i == PlanIndexOf(w.sourcePath) IN
    \/ i < planIdx
    \/ i = planIdx /\ OutIndexOf(i, w.lang) < outIdx

\* The lock file of the written pair's source holds what was written
Persisted(w) ==
    /\ w.sourcePath \in DOMAIN lockFiles
    /\ lockFiles[w.sourcePath].source_hash = w.source_hash
    /\ w.lang \in DOMAIN lockFiles[w.sourcePath].outputs
    /\ lockFiles[w.sourcePath].outputs[w.lang].path = w.path
    /\ lockFiles[w.sourcePath].outputs[w.lang].hash = w.hash
    /\ lockFiles[w.sourcePath].outputs[w.lang].context_hash = w.context_hash

\* The state of a run in which a pair has failed
StoppedAtFailure ==
    trace.failed # <<>> =>
        /\ pc = "failed"
        /\ plans[planIdx].source.sourcePath = trace.failed[1].sourcePath
        /\ plans[planIdx].source.outputs[outIdx].lang = trace.failed[1].lang
        /\ \A k \in 1..Len(trace.written) : WrittenBeforeFailure(trace.written[k])
        /\ trace.writes = {trace.written[k].path : k \in 1..Len(trace.written)}
        /\ trace.lockWrites \subseteq
               {plans[i].source.sourcePath : i \in 1..(planIdx - 1)}
        /\ \A k \in 1..Len(trace.written) :
               PlanIndexOf(trace.written[k].sourcePath) < planIdx
                   => Persisted(trace.written[k])

\* C18: once a pair has failed the run is over: every pair written by the
\* run comes before the failed pair, no lock file of the failed source or
\* of a later source was written, the lock files of the sources completed
\* before hold their written pairs, and the next step, if any, is the start
\* of another run.
C18_FailFast ==
    /\ []StoppedAtFailure
    /\ [][pc = "failed" => (runs' = runs + 1 /\ trace'.failed = <<>>)]_vars

\* The second source fails at its first language: the first source is
\* complete and its lock written, the second language is never attempted.
C18_Witness ==
    /\ pc = "failed"
    /\ trace.failed # <<>>
    /\ planIdx = 2 /\ outIdx = 1
    /\ Len(plans[planIdx].source.outputs) = 2
    /\ plans[planIdx].translate[plans[planIdx].source.outputs[2].lang]
    /\ trace.lockWrites # {}
    /\ Len(trace.written) = 2

\* ---- descriptors buildPlan rejects ----------------------------------------

\* A descriptor of the tree has a header that is not closed or is not TOML
HeaderDefect(fs) == \E p \in DescriptorPaths(fs) : get(fs[p], "header") # ""

\* A descriptor of the tree has a directive validateTranslateEntry rejects
DirectiveDefect(fs) ==
    \E p \in DescriptorPaths(fs) : \E i \in 1..Len(fs[p].translate) :
        validateTranslateEntry(fs[p].translate[i]) # ""

\* The descriptor declares an agent of an unknown role
RoleDefect(fs, p) == roleError(mergeLLM(NoLLM, fs[p].llm)) = "unknown llm.agent role"

\* A target of the directive has a path separator
SeparatorDefect(entry) ==
    \E i \in 1..Len(entry.targets) : langError(entry.targets[i]) = "invalid language code"

HasDefect(fs) ==
    \/ HeaderDefect(fs)
    \/ DirectiveDefect(fs)
    \/ \E p \in DescriptorPaths(fs) :
          \/ RoleDefect(fs, p)
          \/ \E i \in 1..Len(fs[p].translate) : SeparatorDefect(fs[p].translate[i])

\* The project is as it was found: no run got past buildPlan, no backend
\* was asked, no file and no lock file was written or removed
Untouched ==
    /\ pc \in {"idle", "failed"}
    /\ files \in Projects
    /\ lockFiles = <<>>
    /\ trace.coordinator = 0 /\ trace.translator = 0
    /\ trace.writes = {} /\ trace.lockWrites = {}
    /\ cmdOut.removed = {} /\ cmdOut.removedLocks = {}

\* C22 as stated: if any descriptor of the tree has a malformed header, an
\* invalid directive, an unknown agent role or a target with a path
\* separator, every command aborts before any backend request and before it
\* writes or removes a file.
C22_AnyDefectAborts ==
    HasDefect(files) =>
        /\ Untouched
        /\ pc = "failed" => lastErr.kind = "fatal"
        /\ cmdOut.cmd # "" => cmdOut.failed # ""

\* C22, amended: a malformed header or an invalid directive in any
\* descriptor makes buildPlan fail; an unknown agent role does when its
\* descriptor is an ancestor of a source some directive wins; a target with
\* a path separator does when its directive wins a source that has an
\* ancestor descriptor.  Whenever buildPlan fails on such a project, translate,
\* check, status and clean end with its error, and no backend is asked and
\* no file or lock file is written or removed.
C22_RejectedPlanAborts ==
    HasDefect(files) =>
        LET failure   == planFailure(files, walkOrder)
            eager     == HeaderDefect(files) \/ DirectiveDefect(files)
            l10nFiles == discoverL10N(files, walkOrder)
            won       == resolveEntries(files, collectEntries(l10nFiles))
            usedRole  == \E p \in DescriptorPaths(files) :
                            /\ RoleDefect(files, p)
                            /\ \E s \in DOMAIN won : isAncestor(dirname(p), s)
            usedLang  == \E s \in DOMAIN won :
                            /\ SeparatorDefect(won[s].entry)
                            /\ ancestorsFor(s, l10nFiles) # <<>>
        IN /\ eager => failure # ""
           /\ (~eager /\ (usedRole \/ usedLang)) => failure # ""
           /\ failure # "" =>
                 /\ Untouched
                 /\ pc = "failed" => lastErr = [kind |-> "fatal", tool |-> "",
                                                message |-> failure]
                 /\ cmdOut.cmd # "" => cmdOut.failed = failure

\* clean without --dry-run on the project whose winning directive has the
\* target es/mx: it ends with the error of readLangContext
C22_Witness ==
    /\ files = ProjectBadLang
    /\ cmdOut.cmd = "clean"
    /\ ~cmdOut.dryRun
    /\ cmdOut.failed = "invalid language code"

\* ---- dry runs ---------------------------------------------------------------

\* A run with --dry-run has asked no backend and written nothing; when it
\* is over it has counted every pair the planning loop marked
DryRunState ==
    (opts.dryRun /\ pc # "idle") =>
        /\ pc \in {"pair", "done", "failed", "killed"}
        /\ trace.coordinator = 0 /\ trace.translator = 0
        /\ trace.writes = {} /\ trace.lockWrites = {}
        /\ current <= total
        /\ pc = "done" => (current = total /\ total = Cardinality(Marked))

\* C27: translateCmd with --dry-run makes no backend request and writes no
\* output file and no lock file; each of its steps leaves the disk as it
\* is and reports the next marked pair under the next step number, up to
\* total; cleanCmd with --dry-run removes no file and no lock file.
C27_DryRunChangesNothing ==
    /\ []DryRunState
    /\ [](cmdOut.cmd = "clean" /\ cmdOut.dryRun =>
              cmdOut.removed = {} /\ cmdOut.removedLocks = {})
    /\ [][(opts.dryRun /\ pc = "pair") =>
              /\ files' = files
              /\ lockFiles' = lockFiles
              /\ (pc' # "killed" /\ current' # current) =>
                     /\ current' = current + 1
                     /\ current' <= total
                     /\ CurPlan.translate[CurOut.lang]]_vars
    /\ [][(cmdOut'.cmd = "clean" /\ cmdOut'.dryRun /\ cmdOut.cmd = "") =>
              (files' = files /\ lockFiles' = lockFiles)]_vars

\* A dry run after a run that wrote outputs and an edit that made two or
\* more pairs stale
C27_Witness ==
    /\ pc = "done"
    /\ opts.dryRun
    /\ trace.prev = "done"
    /\ trace.prevWrites # {}
    /\ total >= 2
    /\ current = total

\* ---- status -----------------------------------------------------------------

\* C28: statusCmd logs one line per Output Plan, labelled Ok, Stale or
\* Missing; the label is Ok exactly when the planning loop of translateCmd
\* without --force leaves the pair unmarked; and statusCmd throws exactly
\* when a line is labelled Stale or Missing.
C28_StatusAgreesWithTranslate ==
    cmdOut.cmd = "status" =>
        LET pl == planOf(files, walkOrder) IN
        IF pl.failed # "" THEN cmdOut.failed = pl.failed /\ cmdOut.report = <<>>
        ELSE LET pairs == pairsOf(pl.sources) IN
             /\ Len(cmdOut.report) = Len(pairs)
             /\ \A i \in 1..Len(pairs) :
                   LET line == cmdOut.report[i]
                       tp   == translatePlan(files, lockFiles, pairs[i].source, FALSE)
                   IN /\ line.sourcePath = pairs[i].source.sourcePath
                      /\ line.lang = pairs[i].output.lang
                      /\ line.label \in {"Ok", "Stale", "Missing"}
                      /\ line.label = "Ok" <=> ~tp.translate[line.lang]
             /\ cmdOut.failed # "" <=>
                   \E i \in 1..Len(cmdOut.report) :
                       cmdOut.report[i].label \in {"Stale", "Missing"}

\* A report with a line of each label
C28_Witness ==
    /\ cmdOut.cmd = "status"
    /\ \A l \in {"Ok", "Stale", "Missing"} :
          \E i \in 1..Len(cmdOut.report) : cmdOut.report[i].label = l

\* ---- the run after a killed run ----------------------------------------------

\* C30 as stated: in the run that follows a killed run, every pair the
\* planning loop takes to be up to date has an output file that a finished
\* pair wrote completely.
C30_UpToDateMeansComplete ==
    (trace.prev = "killed" /\ plans # <<>>) =>
        \A i \in 1..Len(plans) : \A k \in 1..Len(plans[i].source.outputs) :
            ~plans[i].translate[plans[i].source.outputs[k].lang] =>
                plans[i].source.outputs[k].outputPath \notin trace.torn

\* ---- the Lock Record as a whole --------------------------------------------

\* The languages of the source written so far in the run
WrittenLangs(sourcePath) ==
    {trace.written[i].lang : i \in {j \in 1..Len(trace.written) :
                                        trace.written[j].sourcePath = sourcePath}}

\* The step records a language in the lock of the plan item
RecordsLanguage == pc = "attempt" /\ pc' = "pair"

\* The step writes the lock file of the source being processed
PersistsLock == pc = "pair" /\ lockFiles' # lockFiles

\* C34: recording a language in the Lock Record of a plan item adds or
\* replaces the Output Lock of that language and leaves the Output Locks of
\* the other languages as they are; writeLock stores the record of the plan
\* item whole (the source hash of the run and every Output Lock, those of
\* the languages not written in the run as the lock file held them) and
\* leaves the lock files of the other sources as they are.
C34_OtherLocksKept ==
    [][/\ RecordsLanguage =>
           LET old == plans[planIdx].lock
               new == plans'[planIdx].lock
           IN /\ DOMAIN new.outputs = DOMAIN old.outputs \cup {req.targetLang}
              /\ \A l \in DOMAIN old.outputs \ {req.targetLang} :
                     new.outputs[l] = old.outputs[l]
              /\ new.source_hash = plans[planIdx].sourceHash
       /\ PersistsLock =>
           LET sp  == CurPlan.source.sourcePath
               old == readLock(lockFiles, sp)
               new == lockFiles'[sp]
           IN /\ new = [CurPlan.lock EXCEPT !.updated_at = clock]
              /\ new.source_hash = CurPlan.sourceHash
              /\ DOMAIN new.outputs = DOMAIN old.outputs \cup WrittenLangs(sp)
              /\ \A l \in DOMAIN old.outputs \ WrittenLangs(sp) :
                     new.outputs[l] = old.outputs[l]
              /\ \A q \in DOMAIN lockFiles \ {sp} :
                     q \in DOMAIN lockFiles' /\ lockFiles'[q] = lockFiles[q]]_vars

\* A second run wrote one language of a source whose lock file holds
\* another, written by the first run
C34_Witness ==
    /\ pc = "done"
    /\ runs = 2
    /\ \E sp \in trace.lockWrites :
          /\ WrittenLangs(sp) # {}
          /\ \E l \in DOMAIN lockFiles[sp].outputs \ WrittenLangs(sp) :
                 lockFiles[sp].outputs[l].checked_at < lockFiles[sp].updated_at

-----------------------------------------------------------------------------
(* SpecHistory: translateCmd runs whose translations all pass, with edits   *)
(* of the source and of the targets of its directive between them           *)

\* Most runs and edits in a behaviour
MaxHistory == 6

GuideTo(targets) == Entry(<<"docs", "*.md">>, targets, OutLangRel, <<>>)

TargetLists == { <<"es">>, <<"es", "de">> }

SourceTexts == { SrcIntro, <<"Intro", " ", "2">> }

InitHistory ==
    /\ files = ProjectOf(Descriptor(<<GuideTo(<<"es", "de">>)>>, <<"Product">>, "", "m"),
                         <<>>)
    /\ walkOrder = SortPaths(DescriptorPaths(files))
    /\ lockFiles = <<>>
    /\ clock = 1
    /\ PlanIdle
    /\ RunIdle
    /\ TextIdle
    /\ LockIdle
    /\ AgentsIdle
    /\ TranslateIdle
    /\ HistoryIdle
    /\ CleanIdle

\* The text a translation of the source into the language that passes
\* validate is taken to be
TranslationOf(sourceBytes, lang) == <<lang, ":">> \o sourceBytes

RECURSIVE processOutputs(_, _, _, _, _, _)
\* The inner loop of translateCmd from output k on, every translate call
\* returning: the files, the lock of the plan item and the updated flag
processOutputs(fs, tp, k, lock, wrote, now) ==
    IF k > Len(tp.source.outputs)
    THEN [files |-> fs, lock |-> lock, updated |-> wrote]
    ELSE LET output == tp.source.outputs[k] IN
         IF ~tp.translate[output.lang]
         THEN processOutputs(fs, tp, k + 1, lock, wrote, now)
         ELSE LET text == TranslationOf(tp.sourceBytes, output.lang) IN
              processOutputs(writeFile(fs, output.outputPath, text), tp, k + 1,
                             lockAfterWrite([tp EXCEPT !.lock = lock], output, text, now),
                             TRUE, now)

RECURSIVE processPlans(_, _, _, _)
\* The outer loop of translateCmd: the inner loop, then writeLock when a
\* language was written
processPlans(fs, locks, tps, now) ==
    IF tps = <<>> THEN [files |-> fs, locks |-> locks]
    ELSE LET done == processOutputs(fs, Head(tps), 1, Head(tps).lock, FALSE, now) IN
         processPlans(done.files,
                      IF done.updated
                      THEN writeLock(locks, Head(tps).source.sourcePath, done.lock, now)
                      ELSE locks,
                      Tail(tps), now)

\* The pairs of the plan items with the mark the planning loop gave them
PairsMarked(tps, mark) ==
    UNION {{[sourcePath |-> tps[i].source.sourcePath, lang |-> lang,
             sourceHash |-> tps[i].sourceHash] :
               lang \in {l \in DOMAIN tps[i].translate : tps[i].translate[l] = mark}} :
           i \in 1..Len(tps)}

\* translateCmd without --force, every translation passing validate
RunOk ==
    /\ history.steps < MaxHistory
    /\ \E pl \in {planOf(files, walkOrder)} :
       \E tps \in {translatePlans(files, lockFiles, pl.sources, FALSE)} :
       \E done \in {processPlans(files, lockFiles, tps, clock)} :
          /\ files' = done.files
          /\ lockFiles' = done.locks
          /\ history' =
                 [steps  |-> history.steps + 1,
                  judged |-> {[sourcePath |-> j.sourcePath, lang |-> j.lang,
                               sourceHash |-> j.sourceHash,
                               origin |-> history.origin[<<j.sourcePath, j.lang>>]] :
                                 j \in PairsMarked(tps, FALSE)},
                  origin |-> [q \in DOMAIN history.origin \cup
                                     {<<j.sourcePath, j.lang>> : j \in PairsMarked(tps, TRUE)} |->
                                 IF \E j \in PairsMarked(tps, TRUE) :
                                        q = <<j.sourcePath, j.lang>>
                                 THEN hashBytes(readFile(files, q[1]))
                                 ELSE history.origin[q]],
                  wrote  |-> {[sourcePath |-> j.sourcePath, lang |-> j.lang] :
                                 j \in PairsMarked(tps, TRUE)},
                  planned |-> {tps[i].source.sourcePath : i \in 1..Len(tps)}
                                 \cup DescriptorPaths(files)]
    /\ clock' = clock + 1
    /\ UNCHANGED <<walkOrder, planVars, runVars, textVars, lockIo, agentsOut,
                   translateIo, cleanIo>>

\* The text of the source is edited
EditSourceText ==
    /\ history.steps < MaxHistory
    /\ \E text \in SourceTexts \ {readFile(files, <<"docs", "guide.md">>)} :
          files' = [files EXCEPT ![<<"docs", "guide.md">>] = Text(text)]
    /\ history' = [history EXCEPT !.steps = @ + 1, !.judged = {}, !.wrote = {},
                                   !.planned = {}]
    /\ UNCHANGED <<walkOrder, lockFiles, clock, planVars, runVars, textVars,
                   lockIo, agentsOut, translateIo, cleanIo>>

\* A target language is removed from the directive, or added to it
SetTargets ==
    /\ history.steps < MaxHistory
    /\ \E targets \in TargetLists \ {files[<<"L10N.md">>].translate[1].targets} :
          files' = [files EXCEPT ![<<"L10N.md">>].translate[1].targets = targets]
    /\ history' = [history EXCEPT !.steps = @ + 1, !.judged = {}, !.wrote = {},
                                   !.planned = {}]
    /\ UNCHANGED <<walkOrder, lockFiles, clock, planVars, runVars, textVars,
                   lockIo, agentsOut, translateIo, cleanIo>>

\* A template without {lang}: the outputs of every target of a source
\* expand to one path
OutRel == << <<"out">>, <<"{relpath}">> >>

\* A template that gives the source its own path back
OutOnSource == << <<"{relpath}">> >>

OutputTemplates == { OutLangRel, OutRel, OutOnSource }

\* The output template of the directive is edited
SetOutput ==
    /\ history.steps < MaxHistory
    /\ \E template \in OutputTemplates \ {files[<<"L10N.md">>].translate[1].output} :
          files' = [files EXCEPT ![<<"L10N.md">>].translate[1].output = template]
    /\ history' = [history EXCEPT !.steps = @ + 1, !.judged = {}, !.wrote = {},
                                   !.planned = {}]
    /\ UNCHANGED <<walkOrder, lockFiles, clock, planVars, runVars, textVars,
                   lockIo, agentsOut, translateIo, cleanIo>>

NextHistory == RunOk \/ EditSourceText \/ SetTargets \/ SetOutput

SpecHistory == InitHistory /\ [][NextHistory]_vars

\* C35: a pair the planning loop finds up to date has an output that was
\* translated from the source as it is now: the hash of the source the last
\* translation written for the pair was made from is the hash of the
\* source the run read.
C35_UpToDateFromCurrentSource ==
    \A j \in history.judged : j.origin = j.sourceHash

-----------------------------------------------------------------------------
(* What translateCmd writes to an output path (SpecRun)                     *)

\* A step of a run that is not the end of the process and changes a file
RunWrites == pc \in {"pair", "attempt"} /\ pc' # "killed" /\ files' # files

-----------------------------------------------------------------------------
(* The Output Locks a run persists and the files at their paths             *)
(* (SpecHistory)                                                            *)

\* The Output Lock on disk of a pair
PersistedLock(w) == lockFiles[w.sourcePath].outputs[w.lang]

\* C37: at the end of a run without error, the file at the path of every
\* Output Lock the run persisted holds a content whose hash is the hash of
\* the lock.
C37_PersistedHashIsFileHash ==
    \A w \in history.wrote :
        /\ PersistedLock(w).path \in DOMAIN files
        /\ hashString(readFile(files, PersistedLock(w).path)) = PersistedLock(w).hash

\* C38: translateCmd writes no source and no descriptor: the path of every
\* output a run wrote is neither the path of a source of its plan nor the
\* path of a descriptor.
C38_NoSourceOrDescriptorWritten ==
    \A w \in history.wrote : PersistedLock(w).path \notin history.planned

-----------------------------------------------------------------------------
(* The winning directive and the order of the walk (SpecPlan)               *)

\* The winner buildPlan gives each source: the descriptor that declares the
\* directive and the index of the directive in it
Winners(sources) ==
    {[sourcePath |-> sources[i].sourcePath,
      originPath |-> sources[i].entry.originPath,
      index      |-> sources[i].entry.index] : i \in 1..Len(sources)}

\* C39: the winning directive of a file does not depend on the order in
\* which the descriptors are enumerated: whatever order walkDir meets the
\* descriptors of the project in, buildPlan gives every file the winner the
\* call made gave it.
C39_WinnerIndependentOfOrder ==
    planOut.called =>
        \A order \in Perms(DescriptorPaths(files)) :
            Winners(buildPlan(files, order)) = Winners(planOut.sources)

-----------------------------------------------------------------------------
(* SpecClean: cleanCmd on output paths as they are written in a directive   *)
(* or in a lock file                                                        *)

\* Most output paths one source or one lock file names
MaxCleanOutputs == 2

\* A path as a string: whether it starts with the separator, and what
\* stands between its separators ("" before a doubled or after a last one)
Str(absolute, segs) == [abs |-> absolute, segs |-> segs]

\* resolve(root): the project lies at /w
RootAbs == <<"w">>

RawPaths ==
    { Str(FALSE, <<>>),                             \* the empty string
      Str(FALSE, <<" ">>),
      Str(FALSE, <<".">>),
      Str(FALSE, <<"out", "x">>),
      Str(FALSE, <<"out", "..", "x">>),
      Str(FALSE, <<"..", "x">>),
      Str(FALSE, <<"out", "..", "..", "x">>),
      Str(TRUE,  <<"x">>),                          \* /x
      Str(TRUE,  <<"w", "x">>),                     \* /w/x
      Str(TRUE,  <<"x", "">>),                      \* /x/
      Str(TRUE,  <<"", "x">>),                      \* //x
      Str(TRUE,  <<"etc", ".", "x">>),              \* /etc/./x
      Str(TRUE,  <<"..", "x">>) }                   \* /../x

LockA == RootAbs \o <<".l10n", "locks", "a.lock">>
LockB == RootAbs \o <<".l10n", "locks", "b.lock">>

\* The files on disk, below the root and beside it
DiskFiles ==
    { <<"x">>, <<"etc", "x">>,
      <<"w", "x">>, <<"w", "etc", "x">>, <<"w", "out", "x">>, LockA, LockB }

RECURSIVE resolveOnto(_, _)
resolveOnto(done, rest) ==
    IF rest = <<>> THEN done
    ELSE LET s == Head(rest) IN
         IF s = "." \/ s = "" THEN resolveOnto(done, Tail(rest))
         ELSE IF s = ".."
         THEN resolveOnto(IF done = <<>> THEN done ELSE SubSeq(done, 1, Len(done) - 1),
                          Tail(rest))
         ELSE resolveOnto(Append(done, s), Tail(rest))

\* path.resolve of an absolute path: the segments from the top directory
resolveSegs(segs) == resolveOnto(<<>>, segs)

\* path.normalize on a path string: a last separator stays
normalizePath(r) ==
    LET trailing == r.segs # <<>> /\ r.segs[Len(r.segs)] = ""
        inner    == IF trailing THEN SubSeq(r.segs, 1, Len(r.segs) - 1) ELSE r.segs
        core     == IF r.abs THEN resolveSegs(inner) ELSE normalize(inner)
    IN Str(r.abs, (IF core = <<>> /\ ~r.abs THEN <<".">> ELSE core)
                    \o (IF trailing THEN <<"">> ELSE <<>>))

\* !rel.trim()
blankPath(rel) == ~rel.abs /\ rel.segs \in {<<>>, <<" ">>}

\* resolve(rel) === rel
resolvesToItself(rel) == rel.abs /\ resolveSegs(rel.segs) = rel.segs

\* resolveWithinRoot: the error it throws, or the absolute path it returns
resolveWithinRoot(rootAbs, rel) ==
    IF blankPath(rel) THEN [err |-> "empty path", abs |-> <<>>]
    ELSE IF resolvesToItself(rel)
    THEN [err |-> "refusing to remove absolute path", abs |-> <<>>]
    ELSE LET target == resolveSegs(rootAbs \o rel.segs) IN
         IF target # rootAbs
            /\ ~(Len(target) > Len(rootAbs) /\ IsPrefix(rootAbs, target))
         THEN [err |-> "refusing to remove path outside root", abs |-> <<>>]
         ELSE [err |-> "", abs |-> target]

\* unlink(path) in removePath on the disk of absolute paths: a file is
\* removed, a directory makes unlink throw, ENOENT is caught
unlinkAt(st, target, dryRun) ==
    IF dryRun THEN st
    ELSE IF target \in st.disk
    THEN [st EXCEPT !.disk = @ \ {target}, !.removed = @ \cup {target}]
    ELSE IF \E f \in st.disk : IsPrefix(target, f)
    THEN [st EXCEPT !.err = "EISDIR"]
    ELSE st

RECURSIVE cleanOutputs(_, _, _)
\* for (const output of ...) { resolveWithinRoot; removePath }
cleanOutputs(st, outputs, dryRun) ==
    IF st.err # "" \/ outputs = <<>> THEN st
    ELSE LET within == resolveWithinRoot(RootAbs, Head(outputs)) IN
         IF within.err # ""
         THEN [st EXCEPT !.err = within.err, !.rejected = <<Head(outputs)>>]
         ELSE cleanOutputs(unlinkAt([st EXCEPT !.passed = Append(@, Head(outputs))],
                                    within.abs, dryRun),
                           Tail(outputs), dryRun)

\* The outputs of one source or of one orphaned lock file, then its lock
cleanSource(st, outputs, lock, dryRun) ==
    LET after == cleanOutputs(st, outputs, dryRun) IN
    IF after.err # "" THEN after ELSE unlinkAt(after, lock, dryRun)

\* The two loops of cleanCmd
cleanPaths(st, planned, orphan, dryRun, orphans) ==
    LET after == cleanSource(st, planned, LockA, dryRun) IN
    IF after.err # "" \/ ~orphans THEN after
    ELSE cleanSource(after, orphan, LockB, dryRun)

\* The output paths buildPlan gives: expandOutput ends with normalize, and
\* validateTranslateEntry throws for a blank template
PlanPaths == {r \in RawPaths : normalizePath(r) = r /\ ~blankPath(r)}

InitClean ==
    /\ files = <<>>
    /\ walkOrder = <<>>
    /\ lockFiles = <<>>
    /\ clock = 0
    /\ PlanIdle
    /\ RunIdle
    /\ TextIdle
    /\ LockIdle
    /\ AgentsIdle
    /\ TranslateIdle
    /\ HistoryIdle
    /\ \E planned \in SeqsUpTo(PlanPaths, MaxCleanOutputs) \ {<<>>},
          orphan \in SeqsUpTo(RawPaths, MaxCleanOutputs),
          dryRun \in BOOLEAN, orphans \in BOOLEAN :
          cleanIo = [planned |-> planned, orphan |-> orphan, dryRun |-> dryRun,
                     orphans |-> orphans, disk |-> DiskFiles, removed |-> {},
                     passed |-> <<>>, rejected |-> <<>>, err |-> "", done |-> FALSE]

\* cleanCmd(root, {dryRun, orphans})
Clean ==
    /\ ~cleanIo.done
    /\ \E st \in {cleanPaths([disk |-> cleanIo.disk, removed |-> {}, passed |-> <<>>,
                               rejected |-> <<>>, err |-> ""],
                              cleanIo.planned, cleanIo.orphan,
                              cleanIo.dryRun, cleanIo.orphans)} :
          cleanIo' = [cleanIo EXCEPT !.disk = st.disk, !.removed = st.removed,
                                     !.passed = st.passed, !.rejected = st.rejected,
                                     !.err = st.err, !.done = TRUE]
    /\ UNCHANGED <<diskVars, planVars, runVars, textVars, lockIo, agentsOut,
                   translateIo, history>>

NextClean == Clean

SpecClean == InitClean /\ [][NextClean]_vars

\* The path is the empty string or blank
IsEmptyPath(r) == blankPath(r)

\* The path starts with the separator (path.isAbsolute)
IsAbsolutePath(r) == r.abs

\* The file the path names, taken from the root when it is relative, does
\* not lie in the root
ResolvesOutside(r) ==
    ~IsPrefix(RootAbs, resolveSegs(IF r.abs THEN r.segs ELSE RootAbs \o r.segs))

\* No file cleanCmd removed lies outside the root
RemovedInsideRoot == \A f \in cleanIo.removed : IsPrefix(RootAbs, f)

\* C40: cleanCmd removes no file outside the root, and an output path
\* that is empty, absolute or resolves outside the root is rejected with an
\* error: resolveWithinRoot lets no such path through to removePath.
C40_RejectsEmptyAbsoluteOutside ==
    cleanIo.done =>
        /\ RemovedInsideRoot
        /\ \A i \in 1..Len(cleanIo.passed) :
               /\ ~IsEmptyPath(cleanIo.passed[i])
               /\ ~IsAbsolutePath(cleanIo.passed[i])
               /\ ~ResolvesOutside(cleanIo.passed[i])

====
